---------------------------- MODULE Spec2Model ----------------------------
(***************************************************************************)
(* NYC taxi data pipeline: the parquet importers (PostgreSQL and DuckDB)   *)
(* and the monthly file downloader, as state machines.                     *)
(*                                                                         *)
(* Importer part (src/src/import_to_postgres.py, src/src/import_to_duckdb  *)
(* .py): the committed content of the destination table yellow_taxi_trips  *)
(* and of the ledger import_log, and the position of every import run      *)
(* (one call of import_all_parquet_files) in its code.  A run can be       *)
(* killed at any step, a bulk insert or a ledger write can raise, and on   *)
(* PostgreSQL two runs and the API's create_trip can overlap in time.      *)
(*                                                                         *)
(* Downloader part (src/src/download_data.py, and the older variant        *)
(* src/src/data/download_data.py): the local files of every month (the     *)
(* canonical path and its ".part" path, each absent or holding a number of *)
(* body chunks) and the position of the one downloader process in          *)
(* download_month / download_all_available.  Every request can time out or *)
(* answer any status, a body can break at any chunk, a write to the disk   *)
(* can fail, and the process can be interrupted at any step.  unlink and   *)
(* rename themselves are taken to succeed on a file the process wrote.     *)
(***************************************************************************)
EXTENDS Integers, Sequences, FiniteSets, Bags, TLC

(***************************************************************************)
(* Bounds of the model.                                                    *)
(***************************************************************************)
NumFiles == 2          \* parquet files in the raw directory
MaxRows == 3           \* a parquet file has MaxRows - 1 or MaxRows rows
ChunkSize == 2         \* chunk_size handed to import_parquet
MaxFaults == 1         \* exceptions raised by the store during the runs
MaxCrashes == 1        \* runs killed before they return
MaxApiOps == 1         \* rows created through the API while runs go on

Runs == {"r1", "r2"}   \* the import runs that may overlap in time
Twins == {"a", "b"}    \* two download_month calls for the same month
Backends == {"postgres", "duckdb"}

\* (mutant) the files in the order the directory lists them, here descending
parquet_files_Unsorted == [i \in 1..NumFiles |-> NumFiles + 1 - i]

\* sorted(raw_dir.glob("*.parquet")): the files in ascending order of name
parquet_files == [i \in 1..NumFiles |-> i]

\* Column sets of the TLC files: "VendorID" stands for the 19 columns all the
\* files have, 2025 files have cbd_congestion_fee too.
Columns2024 == {"VendorID"}
Columns2025 == {"VendorID", "cbd_congestion_fee"}

NoIndex == -1          \* the row has no value in column 'index' (NULL or no such column)

BodyChunks == 2        \* chunks of a full response body
MaxPublished == 2      \* the server answers freely for months 1..MaxPublished;
                       \* later months are not published yet (always 404)
MaxTodayMonth == 2     \* datetime.now().month is in 1..MaxTodayMonth

MAX_RETRIES == 3       \* max_retries
BackoffNum == 3        \* backoff_base = 1.5 = BackoffNum / BackoffDen
BackoffDen == 2
YEAR == 2025           \* year
FirstMonth == 1        \* _validate_month: 1 <= month <= 12
LastMonth == 12

Months == FirstMonth..LastMonth
\* status codes a request can answer: success, redirection left unresolved,
\* not found, other client error, server error
Statuses == {200, 304, 403, 404, 503}
\* the month arguments download_month is called with
PeriodInputs == 0..(MaxPublished + 1) \cup {LastMonth, LastMonth + 1}

VARIABLES
    backend,            \* USE_POSTGRES: which importer main() builds
    num_rows,           \* num_rows[f]: metadata.num_rows of parquet file f
    table_exists,       \* yellow_taxi_trips exists in the store
    table_cols,         \* the columns of yellow_taxi_trips ({} while it does not exist)
    file_cols,          \* file -> the columns of the parquet file
    yellow_taxi_trips,  \* committed rows of the destination table (a bag)
    import_log,         \* committed ledger rows, in insertion order
    tx_rows,            \* DuckDB: rows inserted by the open transaction
    tx_log,             \* DuckDB: ledger rows inserted by the open transaction
    pc,                 \* pc[r]: where run r stands
    idx,                \* idx[r]: position of run r in parquet_files
    count_before,       \* count_before[r]: COUNT(*) read before the inserts
    chunk,              \* chunk[r]: number of the next batch of iter_batches
    rows_imported,      \* rows_imported[r]: count_after - count_before
    total_rows,         \* total_rows[r] / imported[r]: the run's accumulator
    ret,                \* ret[r]: value returned by the last import_parquet
    msg,                \* msg[r]: tag printed by the last import_parquet
    succeeded,          \* history: files some import_parquet call loaded with success
    faults, crashes, api_ops,  \* budget counters of the environment
    \* ---- downloader ----
    year_is_current,    \* self.YEAR == today.year
    today_month,        \* today.month
    dest_file,          \* dest_file[m]: the file at the canonical path of month m
    part_file,          \* part_file[m]: the file at the canonical path + ".part"
    fpc,                \* where the downloader process stands
    mode,               \* "month": download_month was called; "all": download_all_available
    month,              \* the month at hand (argument of download_month, loop variable m)
    attempt,            \* attempt of the retry loop at hand
    status,             \* status code of the last response (0: none yet)
    slept,              \* the time.sleep(backoff) calls of the retry loop at hand
    heads, gets,        \* HEAD / GET requests sent for the month at hand
    cause,              \* the exception caught last in the retry loop at hand (e)
    outcome,            \* what the last download_month call returned or raised
    results, missing, failures, successes, skips,  \* locals of download_all_available
    peer,               \* a second process in download_month: where it stands, its
                        \* month, what it returned
    twin,               \* two processes in download_month for one month: where each
                        \* stands, the chunks it wrote, where the file it opened is now
    \* ---- cleaner ----
    pg_rows,            \* the rows of yellow_taxi_trips, by their checked columns
                        \* (numbers of rows of TestRows, in the order SELECT gives them)
    collection,         \* the documents of cleaned_trips, in insertion order
    cleaner,            \* stream_clean_to_mongodb: where it stands, the mode, what
                        \* source_iter has left, its calls on the collection
    totals              \* totals of stream_clean_to_mongodb

impVars == <<backend, num_rows, file_cols, table_exists, table_cols, yellow_taxi_trips,
             import_log,
             tx_rows, tx_log, pc, idx, count_before, chunk, rows_imported,
             total_rows, ret, msg, succeeded, faults, crashes, api_ops>>

fetchVars == <<year_is_current, today_month, dest_file, part_file, fpc, mode, month,
               attempt, status, slept, heads, gets, cause, outcome, results,
               missing,
               failures, successes, skips, peer, twin,
               pg_rows, collection, cleaner, totals>>

vars == <<impVars, fetchVars>>

-----------------------------------------------------------------------------
(***************************************************************************)
(* Pure helpers of the importers.                                          *)
(***************************************************************************)

\* num_chunks = (total_rows + chunk_size - 1) // chunk_size
NumChunks(total, size) == (total + size - 1) \div size

\* (mutant) every batch is a full one, the last one too
BatchLen_AlwaysFull(total, size, k) == size

\* number of rows of batch k (1-based) that iter_batches(batch_size) yields
BatchLen(total, size, k) ==
    IF k * size <= total THEN size
    ELSE IF (k - 1) * size < total THEN total - (k - 1) * size ELSE 0

\* One destination row: the file it comes from, its position in that file
\* (its data) and the value of its column 'index'.
Row(f, p, i) == [src |-> f, pos |-> p, index |-> i]

\* _bulk_insert_with_copy(df_chunk): df.to_csv(index=True) writes the
\* DataFrame's own RangeIndex 0..len-1, which batch.to_pandas() restarts
\* at 0 for every batch.
CopyRows(f, total, size, k) ==
    SetToBag({Row(f, (k - 1) * size + i + 1, i) : i \in 0..(BatchLen(total, size, k) - 1)})

\* INSERT INTO yellow_taxi_trips BY NAME SELECT * FROM read_parquet(f)
DuckRows(f, total) == SetToBag({Row(f, p, NoIndex) : p \in 1..total})

\* INSERT INTO yellow_taxi_trips DEFAULT VALUES (services.create_trip)
ApiRow == Row(0, 0, NoIndex)

\* SELECT COUNT(*) FROM yellow_taxi_trips
CountRows(t) == BagCardinality(t)

\* number of table rows that carry row p of file f
Copies(t, f, p) ==
    BagCardinality([x \in {y \in BagToSet(t) : y.src = f /\ y.pos = p} |-> t[x]])

\* (mutant) the ledger lookup never finds the file
IsFileImported_NeverFound(log, name) == FALSE

\* (mutant) a file whose first row is in the table counts as imported
IsFileImported_OrRowsPresent(log, name) ==
    \/ \E k \in 1..Len(log) : log[k].file_name = name
    \/ Copies(yellow_taxi_trips, name, 1) >= 1

\* is_file_imported: COUNT(*) FROM import_log WHERE file_name = ? > 0
IsFileImported(log, name) ==
    \E k \in 1..Len(log) : log[k].file_name = name

LogEntry(name, n) == [file_name |-> name, rows_imported |-> n]

Active(r) == pc[r] # "idle"

\* the file import_parquet of run r is working on
CurFile(r) == parquet_files[idx[r]]

\* COPY yellow_taxi_trips (columns) and INSERT ... BY NAME take a file whose
\* columns are all columns of the table; the store rejects any other.
ColumnsFit(f) == file_cols[f] \subseteq table_cols

\* (mutant) the schema is read from the last file of the sorted list
InferredSchema_LastFile == file_cols[parquet_files[Len(parquet_files)]]

\* the schema read from the first file of the sorted list (parquet_files[0])
InferredSchema == file_cols[parquet_files[1]]

-----------------------------------------------------------------------------
(***************************************************************************)
(* Initial state: empty store, no run launched; empty raw directory, the   *)
(* downloader not started.                                                 *)
(***************************************************************************)
\* One local file: absent, or present with `size` chunks of the body.
NoFile == [exists |-> FALSE, size |-> 0]
File(n) == [exists |-> TRUE, size |-> n]

TableAbsent ==
    /\ table_exists = FALSE
    /\ table_cols = {}

NothingLoaded ==
    /\ yellow_taxi_trips = EmptyBag
    /\ import_log = <<>>
    /\ tx_rows = EmptyBag
    /\ tx_log = <<>>
    /\ pc = [r \in Runs |-> "idle"]
    /\ idx = [r \in Runs |-> 1]
    /\ count_before = [r \in Runs |-> 0]
    /\ chunk = [r \in Runs |-> 1]
    /\ rows_imported = [r \in Runs |-> 0]
    /\ total_rows = [r \in Runs |-> 0]
    /\ ret = [r \in Runs |-> IF backend = "postgres" THEN 0 ELSE FALSE]
    /\ msg = [r \in Runs |-> "none"]
    /\ succeeded = {}
    /\ faults = 0
    /\ crashes = 0
    /\ api_ops = 0

StoreEmpty == TableAbsent /\ NothingLoaded

-----------------------------------------------------------------------------
(***************************************************************************)
(* data_cleaner: the values of the checked columns and the two filters.    *)
(***************************************************************************)

MaxSource == 3         \* rows of yellow_taxi_trips the cleaner reads, at most
chunksize == 2         \* chunksize of pd.read_sql
batch_size == 1        \* CLEANER_INSERT_BATCH_SIZE

\* A value of a column: NULL, the float NaN, or a number (a timestamp for
\* the date columns).
Null == [kind |-> "null", n |-> 0]
NaN == [kind |-> "nan", n |-> 0]
Num(n) == [kind |-> "num", n |-> n]

\* PostgreSQL: v >= k, v <= k are true, false or unknown; WHERE keeps a row
\* when the condition is true.  NULL compares to unknown; NaN compares
\* greater than every number.
SqlGe(v, k) == v.kind = "nan" \/ (v.kind = "num" /\ v.n >= k)
SqlLe(v, k) == v.kind = "num" /\ v.n <= k
IsNotNull(v) == v.kind # "null"

\* pandas: NULL is read as NaN / None / NaT; a comparison with a missing
\* value is False
PdGe(v, k) == v.kind = "num" /\ v.n >= k
PdLe(v, k) == v.kind = "num" /\ v.n <= k
NotNa(v) == v.kind = "num"

\* the WHERE clause of iter_data_from_postgres_clean
SqlWhere(row) ==
    /\ SqlGe(row.passenger_count, 1)
    /\ SqlLe(row.passenger_count, 8)
    /\ SqlGe(row.trip_distance, 0)
    /\ SqlLe(row.trip_distance, 100)
    /\ SqlGe(row.fare_amount, 0)
    /\ SqlLe(row.fare_amount, 500)
    /\ SqlGe(row.tip_amount, 0)
    /\ SqlGe(row.tolls_amount, 0)
    /\ SqlGe(row.total_amount, 0)
    /\ IsNotNull(row.tpep_pickup_datetime)
    /\ IsNotNull(row.tpep_dropoff_datetime)

\* (mutant) clean_data does not look at the dates
CleanKeeps_NoDates(row) ==
    /\ PdGe(row.passenger_count, 0)
    /\ PdGe(row.trip_distance, 0)
    /\ PdGe(row.fare_amount, 0)
    /\ PdGe(row.tip_amount, 0)
    /\ PdGe(row.tolls_amount, 0)
    /\ PdGe(row.total_amount, 0)
    /\ PdGe(row.passenger_count, 1) /\ PdLe(row.passenger_count, 8)
    /\ PdLe(row.trip_distance, 100)
    /\ PdLe(row.fare_amount, 500)

\* the row filters of clean_data, in its order: no negative value in the six
\* numeric columns, passenger_count in 1..8, trip_distance <= 100,
\* fare_amount <= 500, both dates present
CleanKeeps(row) ==
    /\ PdGe(row.passenger_count, 0)
    /\ PdGe(row.trip_distance, 0)
    /\ PdGe(row.fare_amount, 0)
    /\ PdGe(row.tip_amount, 0)
    /\ PdGe(row.tolls_amount, 0)
    /\ PdGe(row.total_amount, 0)
    /\ PdGe(row.passenger_count, 1) /\ PdLe(row.passenger_count, 8)
    /\ PdLe(row.trip_distance, 100)
    /\ PdLe(row.fare_amount, 500)
    /\ NotNa(row.tpep_pickup_datetime)
    /\ NotNa(row.tpep_dropoff_datetime)

\* A row every rule keeps, and the rows that differ from it in one column,
\* by a value on either side of each limit, NULL or NaN.
GoodRow ==
    [passenger_count |-> Num(1), trip_distance |-> Num(0), fare_amount |-> Num(0),
     tip_amount |-> Num(0), tolls_amount |-> Num(0), total_amount |-> Num(0),
     tpep_pickup_datetime |-> Num(1), tpep_dropoff_datetime |-> Num(1)]

Vary(col, values) == [i \in 1..Len(values) |-> [GoodRow EXCEPT ![col] = values[i]]]

TestRows ==
    <<GoodRow>>
    \o Vary("passenger_count", <<Null, NaN, Num(0), Num(8), Num(9)>>)
    \o Vary("trip_distance", <<Null, NaN, Num(-1), Num(100), Num(101)>>)
    \o Vary("fare_amount", <<Null, NaN, Num(-1), Num(500), Num(501)>>)
    \o Vary("tip_amount", <<Null, NaN, Num(-1)>>)
    \o Vary("tolls_amount", <<Null, NaN, Num(-1)>>)
    \o Vary("total_amount", <<Null, NaN, Num(-1)>>)
    \o Vary("tpep_pickup_datetime", <<Null>>)
    \o Vary("tpep_dropoff_datetime", <<Null>>)

OldDoc == 0            \* a document cleaned_trips held before the run

KeptBySql(i) == SqlWhere(TestRows[i])
KeptByClean(i) == CleanKeeps(TestRows[i])

\* SELECT * FROM yellow_taxi_trips WHERE ...: the rows the clause keeps
iter_data_from_postgres_clean(table) == SelectSeq(table, KeptBySql)

\* clean_data(df): the rows of df every rule keeps
clean_data(df) == SelectSeq(df, KeptByClean)

RECURSIVE insert_many(_, _, _)
\* for start in range(0, kept_len, batch_size): insert_many(cleaned[start:end])
insert_many(coll, cleaned, start) ==
    IF start >= Len(cleaned) THEN coll
    ELSE LET end == IF start + batch_size < Len(cleaned) THEN start + batch_size
                    ELSE Len(cleaned)
         IN  insert_many(coll \o SubSeq(cleaned, start + 1, end), cleaned, start + batch_size)

NoTotals == [lignes_chargees |-> 0, lignes_conservees |-> 0, documents_inserts |-> 0,
             chunks |-> 0]

\* No row to clean, no document, stream_clean_to_mongodb not called.
CleanerIdle ==
    /\ pg_rows = <<>>
    /\ collection = <<>>
    /\ cleaner = [pc |-> "idle", use_pushdown |-> TRUE, current |-> 0,
                  source_iter |-> <<>>, calls |-> <<>>]
    /\ totals = NoTotals

DownloaderIdle ==
    /\ dest_file = [m \in Months |-> NoFile]
    /\ part_file = [m \in Months |-> NoFile]
    /\ fpc = "idle"
    /\ mode = "month"
    /\ month = FirstMonth
    /\ attempt = 1
    /\ status = 0
    /\ slept = <<>>
    /\ heads = 0
    /\ gets = 0
    /\ cause = "none"
    /\ outcome = "none"
    /\ results = <<>>
    /\ missing = <<>>
    /\ failures = <<>>
    /\ successes = 0
    /\ skips = 0
    /\ peer = [pc |-> "idle", month |-> FirstMonth, outcome |-> "none"]
    /\ twin = [p \in Twins |-> [pc |-> "idle", written |-> 0, at |-> "none", outcome |-> "none"]]

InitImport ==
    /\ backend \in Backends
    /\ num_rows \in [1..NumFiles -> (MaxRows - 1)..MaxRows]
    /\ file_cols = [f \in 1..NumFiles |-> Columns2025]
    /\ StoreEmpty
    /\ year_is_current = TRUE
    /\ today_month = FirstMonth
    /\ DownloaderIdle
    /\ CleanerIdle

storeVars == <<table_exists, table_cols, yellow_taxi_trips, import_log, tx_rows, tx_log>>
envVars == <<faults, crashes, api_ops>>
callVars == <<count_before, chunk, rows_imported>>
loopVars == <<idx, total_rows, ret, msg>>

\* The locals of a run that is not running.
ResetLocals(r) ==
    /\ idx' = [idx EXCEPT ![r] = 1]
    /\ count_before' = [count_before EXCEPT ![r] = 0]
    /\ chunk' = [chunk EXCEPT ![r] = 1]
    /\ rows_imported' = [rows_imported EXCEPT ![r] = 0]
    /\ total_rows' = [total_rows EXCEPT ![r] = 0]
    /\ ret' = [ret EXCEPT ![r] = IF backend = "postgres" THEN 0 ELSE FALSE]
    /\ msg' = [msg EXCEPT ![r] = "none"]

\* (mutant) a load that ends with an error ends the loop over the files
EndCall_AbortOnError(r, value, tag) ==
    /\ ret' = [ret EXCEPT ![r] = value]
    /\ msg' = [msg EXCEPT ![r] = tag]
    /\ total_rows' = [total_rows EXCEPT ![r] =
            IF backend = "postgres" THEN @ + value
            ELSE IF value THEN @ + 1 ELSE @]
    /\ idx' = [idx EXCEPT ![r] = IF idx[r] = NumFiles THEN @ ELSE @ + 1]
    /\ pc' = [pc EXCEPT ![r] = IF tag \in {"ERREUR", "error"} THEN "raised"
                                ELSE IF idx[r] = NumFiles THEN "finished" ELSE "gate"]
    /\ count_before' = [count_before EXCEPT ![r] = 0]
    /\ chunk' = [chunk EXCEPT ![r] = 1]
    /\ rows_imported' = [rows_imported EXCEPT ![r] = 0]

\* import_parquet returns `value` after printing `tag`; the loop of
\* import_all_parquet_files adds it up and moves to the next file.
EndCall(r, value, tag) ==
    /\ ret' = [ret EXCEPT ![r] = value]
    /\ msg' = [msg EXCEPT ![r] = tag]
    /\ total_rows' = [total_rows EXCEPT ![r] =
            IF backend = "postgres" THEN @ + value
            ELSE IF value THEN @ + 1 ELSE @]
    /\ idx' = [idx EXCEPT ![r] = IF idx[r] = NumFiles THEN @ ELSE @ + 1]
    /\ pc' = [pc EXCEPT ![r] = IF idx[r] = NumFiles THEN "finished" ELSE "gate"]
    /\ count_before' = [count_before EXCEPT ![r] = 0]
    /\ chunk' = [chunk EXCEPT ![r] = 1]
    /\ rows_imported' = [rows_imported EXCEPT ![r] = 0]

-----------------------------------------------------------------------------
(***************************************************************************)
(* import_all_parquet_files, both importers.                               *)
(***************************************************************************)

\* A process builds the importer and calls import_all_parquet_files.  The
\* DuckDB file is opened by one process at a time; run names are handed out
\* in order (r2 is an overlapping second run).
Launch(r) ==
    /\ pc[r] = "idle"
    /\ backend = "duckdb" => \A q \in Runs : ~Active(q)
    /\ r = "r2" => Active("r1")
    /\ pc' = [pc EXCEPT ![r] = IF backend = "postgres" THEN "check_table" ELSE "init_db"]
    /\ UNCHANGED <<backend, num_rows, file_cols, storeVars, callVars, loopVars, succeeded, envVars>>
    /\ UNCHANGED fetchVars

\* import_all_parquet_files returns (or an exception left it): the process ends.
Return(r) ==
    /\ pc[r] \in {"finished", "raised"}
    /\ pc' = [pc EXCEPT ![r] = "idle"]
    /\ ResetLocals(r)
    /\ UNCHANGED <<backend, num_rows, file_cols, storeVars, succeeded, envVars>>
    /\ UNCHANGED fetchVars

\* The process is killed: its locals are lost, what the store committed stays,
\* an open DuckDB transaction is lost.
Crash(r) ==
    /\ Active(r)
    /\ crashes < MaxCrashes
    /\ crashes' = crashes + 1
    /\ pc' = [pc EXCEPT ![r] = "idle"]
    /\ ResetLocals(r)
    /\ tx_rows' = EmptyBag
    /\ tx_log' = <<>>
    /\ UNCHANGED <<backend, num_rows, file_cols, table_exists, table_cols, yellow_taxi_trips, import_log,
                   succeeded, faults, api_ops>>
    /\ UNCHANGED fetchVars

\* if self.is_file_imported(name): return 0 / return False
Gate(r) ==
    /\ pc[r] = "gate"
    /\ IF IsFileImported(import_log, CurFile(r))
         THEN IF backend = "postgres" THEN EndCall(r, 0, "SKIP")
                                      ELSE EndCall(r, FALSE, "skip")
         ELSE /\ pc' = [pc EXCEPT ![r] = IF backend = "postgres" THEN "count_before"
                                                                 ELSE "begin"]
              /\ ret' = [ret EXCEPT ![r] = IF backend = "postgres" THEN 0 ELSE FALSE]
              /\ msg' = [msg EXCEPT ![r] = "none"]
              /\ UNCHANGED <<idx, total_rows, callVars>>
    /\ UNCHANGED <<backend, num_rows, file_cols, storeVars, succeeded, envVars>>
    /\ UNCHANGED fetchVars

-----------------------------------------------------------------------------
(***************************************************************************)
(* PostgreSQLImporter.                                                     *)
(***************************************************************************)

\* (mutant) a table of other columns than the first file's is refused
PgCheckTable_RaiseOnMismatch(r) ==
    /\ backend = "postgres"
    /\ pc[r] = "check_table"
    /\ pc' = [pc EXCEPT ![r] = IF ~table_exists THEN "create_table"
                                ELSE IF table_cols = InferredSchema THEN "gate"
                                ELSE "raised"]
    /\ UNCHANGED <<backend, num_rows, file_cols, storeVars, callVars, loopVars, succeeded, envVars>>
    /\ UNCHANGED fetchVars

\* _create_table_from_first_parquet: inspector.get_table_names()
PgCheckTable(r) ==
    /\ backend = "postgres"
    /\ pc[r] = "check_table"
    /\ pc' = [pc EXCEPT ![r] = IF table_exists THEN "gate" ELSE "create_table"]
    /\ UNCHANGED <<backend, num_rows, file_cols, storeVars, callVars, loopVars, succeeded, envVars>>
    /\ UNCHANGED fetchVars

\* df_sample.head(0).to_sql(..., if_exists='fail'): raises when another run
\* created the table since the check; nothing catches it in the run.
PgCreateTable(r) ==
    /\ backend = "postgres"
    /\ pc[r] = "create_table"
    /\ IF table_exists
         THEN /\ pc' = [pc EXCEPT ![r] = "raised"]
              /\ UNCHANGED <<table_exists, table_cols>>
         ELSE /\ pc' = [pc EXCEPT ![r] = "gate"]
              /\ table_exists' = TRUE
              /\ table_cols' = InferredSchema
    /\ UNCHANGED <<backend, num_rows, file_cols, yellow_taxi_trips, import_log, tx_rows, tx_log,
                   callVars, loopVars, succeeded, envVars>>
    /\ UNCHANGED fetchVars

\* count_before = SELECT COUNT(*); ParquetFile(file_path); num_chunks
PgCountBefore(r) ==
    /\ backend = "postgres"
    /\ pc[r] = "count_before"
    /\ count_before' = [count_before EXCEPT ![r] = CountRows(yellow_taxi_trips)]
    /\ chunk' = [chunk EXCEPT ![r] = 1]
    /\ pc' = [pc EXCEPT ![r] =
            IF NumChunks(num_rows[CurFile(r)], ChunkSize) = 0 THEN "count_after" ELSE "copy"]
    /\ UNCHANGED <<backend, num_rows, file_cols, storeVars, rows_imported, loopVars, succeeded, envVars>>
    /\ UNCHANGED fetchVars

\* (mutant) the loop stops after its first turn
BatchesDone_AfterFirst(r, k) == TRUE

\* the loop over iter_batches is over once every batch went through COPY
BatchesDone(r, k) == k >= NumChunks(num_rows[CurFile(r)], ChunkSize)

\* One turn of the loop: _bulk_insert_with_copy(df_chunk) opens its own
\* connection, copies the batch and commits it.
PgCopy(r) ==
    /\ backend = "postgres"
    /\ pc[r] = "copy"
    /\ ColumnsFit(CurFile(r))
    /\ yellow_taxi_trips' = yellow_taxi_trips (+)
            CopyRows(CurFile(r), num_rows[CurFile(r)], ChunkSize, chunk[r])
    /\ chunk' = [chunk EXCEPT ![r] = @ + 1]
    /\ pc' = [pc EXCEPT ![r] = IF BatchesDone(r, chunk[r]) THEN "count_after" ELSE "copy"]
    /\ UNCHANGED <<backend, num_rows, file_cols, table_exists, table_cols, import_log, tx_rows, tx_log,
                   count_before, rows_imported, loopVars, succeeded, envVars>>
    /\ UNCHANGED fetchVars

\* count_after = SELECT COUNT(*); rows_imported = count_after - count_before
PgCountAfter(r) ==
    /\ backend = "postgres"
    /\ pc[r] = "count_after"
    /\ rows_imported' = [rows_imported EXCEPT ![r] =
            CountRows(yellow_taxi_trips) - count_before[r]]
    /\ pc' = [pc EXCEPT ![r] = "log"]
    /\ UNCHANGED <<backend, num_rows, file_cols, storeVars, count_before, chunk, loopVars,
                   succeeded, envVars>>
    /\ UNCHANGED fetchVars

\* db.add(ImportLog(...)); db.commit(); return rows_imported
PgLog(r) ==
    /\ backend = "postgres"
    /\ pc[r] = "log"
    /\ import_log' = Append(import_log, LogEntry(CurFile(r), rows_imported[r]))
    /\ succeeded' = succeeded \cup {CurFile(r)}
    /\ EndCall(r, rows_imported[r], "OK")
    /\ UNCHANGED <<backend, num_rows, file_cols, table_exists, table_cols, yellow_taxi_trips, tx_rows, tx_log,
                   envVars>>
    /\ UNCHANGED fetchVars

\* except Exception: print [ERREUR]; return 0 -- a store operation of
\* import_parquet raises (the batch being copied is not committed).
PgRaise(r) ==
    /\ backend = "postgres"
    /\ pc[r] \in {"count_before", "copy", "count_after", "log"}
    /\ faults < MaxFaults
    /\ faults' = faults + 1
    /\ EndCall(r, 0, "ERREUR")
    /\ UNCHANGED <<backend, num_rows, file_cols, storeVars, succeeded, crashes, api_ops>>
    /\ UNCHANGED fetchVars

\* POST /trips: TaxiTripService.create_trip inserts one row and commits.
ApiCreate ==
    /\ backend = "postgres"
    /\ table_exists
    /\ api_ops < MaxApiOps
    /\ api_ops' = api_ops + 1
    /\ yellow_taxi_trips' = yellow_taxi_trips (+) SetToBag({ApiRow})
    /\ UNCHANGED <<backend, num_rows, file_cols, table_exists, table_cols, import_log, tx_rows, tx_log, pc,
                   callVars, loopVars, succeeded, faults, crashes>>
    /\ UNCHANGED fetchVars

-----------------------------------------------------------------------------
(***************************************************************************)
(* DuckDBImporter.                                                         *)
(***************************************************************************)

\* what the connection's open transaction sees
DuckView == yellow_taxi_trips (+) tx_rows

\* (mutant) the table is made anew with the columns of the first file
DuckInit_RecreateFromFirstFile(r) ==
    /\ backend = "duckdb"
    /\ pc[r] = "init_db"
    /\ table_exists' = TRUE
    /\ table_cols' = InferredSchema
    /\ pc' = [pc EXCEPT ![r] = "gate"]
    /\ UNCHANGED <<backend, num_rows, file_cols, yellow_taxi_trips, import_log, tx_rows, tx_log,
                   callVars, loopVars, succeeded, envVars>>
    /\ UNCHANGED fetchVars

\* __init__ -> _initialize_database: CREATE TABLE IF NOT EXISTS (both tables),
\* then ALTER TABLE ... ADD COLUMN IF NOT EXISTS cbd_congestion_fee
DuckInit(r) ==
    /\ backend = "duckdb"
    /\ pc[r] = "init_db"
    /\ table_exists' = TRUE
    /\ table_cols' = IF table_exists THEN table_cols \cup {"cbd_congestion_fee"}
                                     ELSE Columns2025
    /\ pc' = [pc EXCEPT ![r] = "gate"]
    /\ UNCHANGED <<backend, num_rows, file_cols, yellow_taxi_trips, import_log, tx_rows, tx_log,
                   callVars, loopVars, succeeded, envVars>>
    /\ UNCHANGED fetchVars

\* BEGIN; before_count = SELECT COUNT(*)
DuckBegin(r) ==
    /\ backend = "duckdb"
    /\ pc[r] = "begin"
    /\ count_before' = [count_before EXCEPT ![r] = CountRows(DuckView)]
    /\ pc' = [pc EXCEPT ![r] = "insert"]
    /\ UNCHANGED <<backend, num_rows, file_cols, storeVars, chunk, rows_imported, loopVars,
                   succeeded, envVars>>
    /\ UNCHANGED fetchVars

\* INSERT INTO yellow_taxi_trips BY NAME SELECT * FROM read_parquet(?): each
\* column of the file is looked up in the table by name (the table has the
\* columns of both layouts once _initialize_database has run).
DuckInsert(r) ==
    /\ backend = "duckdb"
    /\ pc[r] = "insert"
    /\ ColumnsFit(CurFile(r))
    /\ tx_rows' = tx_rows (+) DuckRows(CurFile(r), num_rows[CurFile(r)])
    /\ pc' = [pc EXCEPT ![r] = "count_after"]
    /\ UNCHANGED <<backend, num_rows, file_cols, table_exists, table_cols, yellow_taxi_trips, import_log, tx_log,
                   callVars, loopVars, succeeded, envVars>>
    /\ UNCHANGED fetchVars

\* after_count = SELECT COUNT(*); rows_imported = after - before
DuckCountAfter(r) ==
    /\ backend = "duckdb"
    /\ pc[r] = "count_after"
    /\ rows_imported' = [rows_imported EXCEPT ![r] = CountRows(DuckView) - count_before[r]]
    /\ pc' = [pc EXCEPT ![r] = "log"]
    /\ UNCHANGED <<backend, num_rows, file_cols, storeVars, count_before, chunk, loopVars,
                   succeeded, envVars>>
    /\ UNCHANGED fetchVars

\* INSERT INTO import_log(file_name, rows_imported) VALUES (?, ?)
DuckLog(r) ==
    /\ backend = "duckdb"
    /\ pc[r] = "log"
    /\ ~IsFileImported(import_log \o tx_log, CurFile(r))   \* file_name is the PRIMARY KEY
    /\ tx_log' = Append(tx_log, LogEntry(CurFile(r), rows_imported[r]))
    /\ pc' = [pc EXCEPT ![r] = "commit"]
    /\ UNCHANGED <<backend, num_rows, file_cols, table_exists, table_cols, yellow_taxi_trips, import_log, tx_rows,
                   callVars, loopVars, succeeded, envVars>>
    /\ UNCHANGED fetchVars

\* COMMIT; return True
DuckCommit(r) ==
    /\ backend = "duckdb"
    /\ pc[r] = "commit"
    /\ yellow_taxi_trips' = yellow_taxi_trips (+) tx_rows
    /\ import_log' = import_log \o tx_log
    /\ tx_rows' = EmptyBag
    /\ tx_log' = <<>>
    /\ succeeded' = succeeded \cup {CurFile(r)}
    /\ EndCall(r, TRUE, "ok")
    /\ UNCHANGED <<backend, num_rows, file_cols, table_exists, table_cols, envVars>>
    /\ UNCHANGED fetchVars

\* (mutant) the rollback also undoes the ledger entries committed before
DuckRaise_UndoesLedger(r) ==
    /\ backend = "duckdb"
    /\ pc[r] \in {"begin", "insert", "count_after", "log", "commit"}
    /\ faults < MaxFaults
    /\ faults' = faults + 1
    /\ tx_rows' = EmptyBag
    /\ tx_log' = <<>>
    /\ import_log' = <<>>
    /\ EndCall(r, FALSE, "error")
    /\ UNCHANGED <<backend, num_rows, file_cols, table_exists, table_cols, yellow_taxi_trips,
                   succeeded, crashes, api_ops>>
    /\ UNCHANGED fetchVars

\* except Exception: ROLLBACK; print [error]; return False
DuckRaise(r) ==
    /\ backend = "duckdb"
    /\ pc[r] \in {"begin", "insert", "count_after", "log", "commit"}
    /\ faults < MaxFaults
    /\ faults' = faults + 1
    /\ tx_rows' = EmptyBag
    /\ tx_log' = <<>>
    /\ EndCall(r, FALSE, "error")
    /\ UNCHANGED <<backend, num_rows, file_cols, table_exists, table_cols, yellow_taxi_trips, import_log,
                   succeeded, crashes, api_ops>>
    /\ UNCHANGED fetchVars

\* cur.copy_from raises: the file has a column the table has not; the
\* except clause of import_parquet prints [ERREUR] and returns 0.
PgCopyRejected(r) ==
    /\ backend = "postgres"
    /\ pc[r] = "copy"
    /\ ~ColumnsFit(CurFile(r))
    /\ EndCall(r, 0, "ERREUR")
    /\ UNCHANGED <<backend, num_rows, file_cols, storeVars, succeeded, envVars>>
    /\ UNCHANGED fetchVars

-----------------------------------------------------------------------------
\* One step of run r on PostgreSQL, on DuckDB.
PgStep(r) ==
    \/ Return(r) \/ Gate(r)
    \/ PgCheckTable(r) \/ PgCreateTable(r) \/ PgCountBefore(r) \/ PgCopy(r)
    \/ PgCountAfter(r) \/ PgLog(r)

DuckStep(r) ==
    \/ DuckInit(r) \/ DuckBegin(r) \/ DuckInsert(r) \/ DuckCountAfter(r)
    \/ DuckLog(r) \/ DuckCommit(r) \/ DuckRaise(r)

\* A run is launched when no other run is going on (the script is run by
\* hand, again after a failure or a kill).
SeqLaunch(r) ==
    /\ \A q \in Runs : ~Active(q)
    /\ Launch(r)

Init == InitImport

\* Runs one after the other; the store raises, runs are killed, and the
\* API creates rows while a run goes on.
Next ==
    \/ \E r \in Runs : SeqLaunch(r) \/ PgStep(r) \/ DuckStep(r) \/ Crash(r) \/ PgRaise(r)
    \/ ApiCreate

Spec == Init /\ [][Next]_vars

\* Two PostgreSQL runs that overlap in time (two POST /pipeline/run, or the
\* script and the API), with no failure of the store and no kill.
InitOverlap == InitImport /\ backend = "postgres"

NextOverlap ==
    \/ \E r \in Runs : Launch(r) \/ PgStep(r)
    \/ ApiCreate

SpecOverlap == InitOverlap /\ [][NextOverlap]_vars

\* Runs over files of the 2024 and 2025 layouts, against a store in which
\* earlier runs, over what the raw directory held then, may have left the
\* table yellow_taxi_trips (and loaded nothing).
InitSchema ==
    /\ backend \in Backends
    /\ num_rows = [f \in 1..NumFiles |-> MaxRows - 1]
    /\ file_cols \in [1..NumFiles -> {Columns2024, Columns2025}]
    /\ \/ TableAbsent
       \/ table_exists = TRUE /\ table_cols \in {Columns2024, Columns2025}
    /\ NothingLoaded
    /\ year_is_current = TRUE
    /\ today_month = FirstMonth
    /\ DownloaderIdle
    /\ CleanerIdle

\* (mutant) the exception of the resolver is caught and the loop starts
PgResolverRaise_Swallowed(r) ==
    /\ backend = "postgres"
    /\ pc[r] = "create_table"
    /\ faults < MaxFaults
    /\ faults' = faults + 1
    /\ pc' = [pc EXCEPT ![r] = "gate"]
    /\ UNCHANGED <<backend, num_rows, file_cols, storeVars, callVars, loopVars, succeeded,
                   crashes, api_ops>>
    /\ UNCHANGED fetchVars

\* pd.read_parquet(parquet_file) or to_sql raises in
\* _create_table_from_first_parquet (unreadable first file, store error):
\* nothing catches it in import_all_parquet_files.
PgResolverRaise(r) ==
    /\ backend = "postgres"
    /\ pc[r] = "create_table"
    /\ faults < MaxFaults
    /\ faults' = faults + 1
    /\ pc' = [pc EXCEPT ![r] = "raised"]
    /\ UNCHANGED <<backend, num_rows, file_cols, storeVars, callVars, loopVars, succeeded,
                   crashes, api_ops>>
    /\ UNCHANGED fetchVars

NextSchema ==
    \/ Next
    \/ \E r \in Runs : PgCopyRejected(r) \/ PgResolverRaise(r)

SpecSchema == InitSchema /\ [][NextSchema]_vars

-----------------------------------------------------------------------------
(***************************************************************************)
(* NYCTaxiDataDownloader (src/src/download_data.py).                       *)
(***************************************************************************)
fsVars == <<dest_file, part_file>>
clockVars == <<year_is_current, today_month>>
cleanVars == <<pg_rows, collection, cleaner, totals>>
accVars == <<results, missing, failures, successes, skips>>
reqVars == <<attempt, status, slept, heads, gets, cause>>
peerVars == <<peer, twin>>

RECURSIVE Pow(_, _)
Pow(b, n) == IF n = 0 THEN 1 ELSE b * Pow(b, n - 1)

\* (mutant) the exponent is the attempt, not the attempt less one
Backoff_OffByOne(a) == <<Pow(BackoffNum, a), Pow(BackoffDen, a)>>

\* backoff = self.BACKOFF_BASE ** (attempt - 1), as the fraction <<num, den>>
Backoff(a) == <<Pow(BackoffNum, a - 1), Pow(BackoffDen, a - 1)>>

\* _validate_month: raises ValueError unless 1 <= month <= 12
ValidMonth(m) == FirstMonth <= m /\ m <= LastMonth

\* (mutant) the local file is never found
DestExists_Never(m) == FALSE

\* dest.exists(): the canonical file of month m is there
DestExists(m) == dest_file[m].exists

\* (mutant) a 404 on HEAD is taken for "present"
RemoteExists_Always(s) == TRUE

\* (mutant) only a success or redirection status counts as "present"
RemoteExists_OnlySuccess(s) == 200 <= s /\ s < 400

\* _remote_exists, on the status HEAD obtained
RemoteExists(s) ==
    IF 200 <= s /\ s < 400 THEN TRUE
    ELSE IF s = 404 THEN FALSE
    ELSE TRUE

\* (mutant) the size of the file written is not looked at
NonEmpty_Always(file) == TRUE

\* dest_tmp.stat().st_size > 0
NonEmpty(file) == file.size > 0

\* resp.raise_for_status(): HTTPError for the 4xx and 5xx statuses
RaisesForStatus(s) == 400 <= s /\ s < 600

\* end_month = today.month if self.YEAR == today.year else 12
EndMonth == IF year_is_current THEN today_month ELSE LastMonth

\* The server: it answers any status, or not at all, for the months it may
\* have; the other URLs are not found.
Published(m) == ValidMonth(m) /\ m <= MaxPublished
AnswersOf(m) == IF Published(m) THEN Statuses ELSE {404}

\* (mutant) a month that fails ends the loop of download_all_available
EndOfMonth_AbortOnFailure(ok) ==
    /\ outcome' = ok
    /\ IF mode = "month"
         THEN /\ fpc' = "idle"
              /\ UNCHANGED <<month, accVars>>
         ELSE /\ fpc' = IF ok = "True" THEN "iter" ELSE "idle"
              /\ month' = month + 1
              /\ IF ok = "True"
                   THEN /\ results' = Append(results, month)
                        /\ successes' = successes + 1
                        /\ UNCHANGED failures
                   ELSE /\ failures' = Append(failures, month)
                        /\ UNCHANGED <<results, successes>>
              /\ UNCHANGED <<missing, skips>>

\* download_month returns `ok`; in download_all_available the loop files the
\* month under results or failures and goes on.
EndOfMonth(ok) ==
    /\ outcome' = ok
    /\ IF mode = "month"
         THEN /\ fpc' = "idle"
              /\ UNCHANGED <<month, accVars>>
         ELSE /\ fpc' = "iter"
              /\ month' = month + 1
              /\ IF ok = "True"
                   THEN /\ results' = Append(results, month)
                        /\ successes' = successes + 1
                        /\ UNCHANGED failures
                   ELSE /\ failures' = Append(failures, month)
                        /\ UNCHANGED <<results, successes>>
              /\ UNCHANGED <<missing, skips>>

\* download_month(m) is called: get_file_path validates, dest.exists() skips.
DownloadMonth(m) ==
    /\ fpc = "idle"
    /\ mode' = "month"
    /\ month' = m
    /\ attempt' = 1 /\ status' = 0 /\ slept' = <<>> /\ heads' = 0 /\ gets' = 0
    /\ cause' = "none"
    /\ results' = <<>> /\ missing' = <<>> /\ failures' = <<>>
    /\ successes' = 0 /\ skips' = 0
    /\ IF ~ValidMonth(m)
         THEN outcome' = "ValueError" /\ fpc' = "idle"
         ELSE IF DestExists(m)
                THEN outcome' = "True" /\ fpc' = "idle"
                ELSE outcome' = "none" /\ fpc' = "get"
    /\ UNCHANGED <<fsVars, clockVars, cleanVars, peerVars, impVars>>

\* download_all_available() is called
DownloadAll ==
    /\ fpc = "idle"
    /\ mode' = "all"
    /\ month' = FirstMonth
    /\ attempt' = 1 /\ status' = 0 /\ slept' = <<>> /\ heads' = 0 /\ gets' = 0
    /\ cause' = "none"
    /\ results' = <<>> /\ missing' = <<>> /\ failures' = <<>>
    /\ successes' = 0 /\ skips' = 0
    /\ outcome' = "none"
    /\ fpc' = "iter"
    /\ UNCHANGED <<fsVars, clockVars, cleanVars, peerVars, impVars>>

\* for m in range(1, end_month + 1): the local file is there, or HEAD is next
AllIter ==
    /\ fpc = "iter"
    /\ IF month > EndMonth
         THEN /\ fpc' = "idle"
              /\ UNCHANGED <<month, reqVars, accVars>>
         ELSE IF DestExists(month)
                THEN /\ results' = Append(results, month)
                     /\ skips' = skips + 1
                     /\ month' = month + 1
                     /\ fpc' = "iter"
                     /\ UNCHANGED <<reqVars, missing, failures, successes>>
                ELSE /\ fpc' = "head"
                     /\ attempt' = 1 /\ status' = 0 /\ slept' = <<>>
                     /\ heads' = 0 /\ gets' = 0 /\ cause' = "none"
                     /\ UNCHANGED <<month, accVars>>
    /\ UNCHANGED <<mode, outcome, fsVars, clockVars, cleanVars, peerVars, impVars>>

\* download_month(m) called by the loop after _remote_exists said True
StartTransfer ==
    /\ attempt' = 1
    /\ slept' = <<>>
    /\ gets' = 0
    /\ cause' = "none"
    /\ IF DestExists(month)
         THEN EndOfMonth("True")
         ELSE /\ fpc' = "get"
              /\ UNCHANGED <<month, outcome, accVars>>

\* _head_with_retries: requests.head answers status s
HeadAnswer(s) ==
    /\ fpc = "head"
    /\ s \in AnswersOf(month)
    /\ heads' = heads + 1
    /\ status' = s
    /\ IF RemoteExists(s)
         THEN StartTransfer
         ELSE /\ missing' = Append(missing, month)
              /\ month' = month + 1
              /\ fpc' = "iter"
              /\ UNCHANGED <<attempt, slept, gets, cause, outcome, results, failures,
                             successes, skips>>
    /\ UNCHANGED <<mode, fsVars, clockVars, cleanVars, peerVars, impVars>>

\* _head_with_retries: requests.head raises; after the last attempt the
\* RequestException makes _remote_exists answer True
HeadError ==
    /\ fpc = "head"
    /\ Published(month)
    /\ heads' = heads + 1
    /\ status' = 0
    /\ IF attempt < MAX_RETRIES
         THEN /\ slept' = Append(slept, Backoff(attempt))
              /\ attempt' = attempt + 1
              /\ cause' = "ConnectionError"
              /\ UNCHANGED <<fpc, month, gets, outcome, accVars>>
         ELSE StartTransfer
    /\ UNCHANGED <<mode, fsVars, clockVars, cleanVars, peerVars, impVars>>

\* (mutant) the attempts are not counted: a transfer error is always
\* followed by another attempt
TransferError_Unbounded ==
    /\ part_file' = [part_file EXCEPT ![month] = NoFile]
    /\ fpc' = "get"
    /\ UNCHANGED <<slept, attempt>>

\* except RequestException: unlink the .part file; sleep and try again, or
\* give up after the last attempt
TransferError ==
    /\ part_file' = [part_file EXCEPT ![month] = NoFile]
    /\ IF attempt < MAX_RETRIES
         THEN /\ slept' = Append(slept, Backoff(attempt))
              /\ attempt' = attempt + 1
              /\ fpc' = "get"
         ELSE /\ fpc' = "failed"
              /\ UNCHANGED <<slept, attempt>>

\* except Exception: unlink the .part file; return False
UnexpectedError ==
    /\ part_file' = [part_file EXCEPT ![month] = NoFile]
    /\ fpc' = "failed"
    /\ UNCHANGED <<slept, attempt>>

\* requests.get raises (connection error, timeout)
GetError ==
    /\ fpc = "get"
    /\ Published(month)
    /\ gets' = gets + 1
    /\ status' = 0
    /\ cause' = "ConnectionError"
    /\ TransferError
    /\ UNCHANGED <<mode, month, heads, outcome, accVars, dest_file, clockVars, cleanVars, peerVars, impVars>>

\* (mutant) a 404 is retried like any other bad status
GetAnswer_RetryOn404(s) ==
    /\ fpc = "get"
    /\ s \in AnswersOf(month)
    /\ gets' = gets + 1
    /\ status' = s
    /\ IF RaisesForStatus(s)
         THEN /\ cause' = "HTTPError"
              /\ TransferError
         ELSE /\ part_file' = [part_file EXCEPT ![month] = File(0)]
              /\ fpc' = "stream"
              /\ UNCHANGED <<slept, attempt, cause>>
    /\ UNCHANGED <<mode, month, heads, outcome, accVars, dest_file, clockVars, cleanVars, peerVars, impVars>>

\* requests.get answers status s: 404 returns False, another bad status is a
\* transfer error, else the old .part is unlinked and a new one opened
GetAnswer(s) ==
    /\ fpc = "get"
    /\ s \in AnswersOf(month)
    /\ gets' = gets + 1
    /\ status' = s
    /\ IF RaisesForStatus(s)
         THEN IF s = 404
                THEN /\ fpc' = "failed"
                     /\ UNCHANGED <<part_file, slept, attempt, cause>>
                ELSE /\ cause' = "HTTPError"
                     /\ TransferError
         ELSE /\ part_file' = [part_file EXCEPT ![month] = File(0)]
              /\ fpc' = "stream"
              /\ UNCHANGED <<slept, attempt, cause>>
    /\ UNCHANGED <<mode, month, heads, outcome, accVars, dest_file, clockVars, cleanVars, peerVars, impVars>>

\* f.write(chunk) for the next chunk of the body
StreamChunk ==
    /\ fpc = "stream"
    /\ part_file[month].size < BodyChunks
    /\ part_file' = [part_file EXCEPT ![month] = File(@.size + 1)]
    /\ UNCHANGED <<fpc, mode, month, reqVars, outcome, accVars, dest_file, clockVars, cleanVars, peerVars,
                   impVars>>

\* iter_content raises: the connection broke in the middle of the body
StreamBreak ==
    /\ fpc = "stream"
    /\ cause' = "ChunkedEncodingError"
    /\ TransferError
    /\ UNCHANGED <<mode, month, status, heads, gets, outcome, accVars, dest_file,
                   clockVars, cleanVars, peerVars, impVars>>

\* open() or f.write() raises OSError (disk full, ...)
WriteFail ==
    /\ fpc = "stream"
    /\ cause' = "OSError"
    /\ UnexpectedError
    /\ UNCHANGED <<mode, month, status, heads, gets, outcome, accVars, dest_file,
                   clockVars, cleanVars, peerVars, impVars>>

\* the body ends (whole, or empty): st_size > 0 returns True, an empty file
\* raises RequestException("Réponse vide")
StreamEnd ==
    /\ fpc = "stream"
    /\ part_file[month].size \in {0, BodyChunks}
    /\ IF NonEmpty(part_file[month])
         THEN /\ fpc' = "publish"
              /\ UNCHANGED <<part_file, slept, attempt, cause>>
         ELSE /\ cause' = "Reponse vide"
              /\ TransferError
    /\ UNCHANGED <<mode, month, status, heads, gets, outcome, accVars, dest_file,
                   clockVars, cleanVars, peerVars, impVars>>

\* ok: tmp_dest.replace(dest); return True
Publish ==
    /\ fpc = "publish"
    /\ dest_file' = [dest_file EXCEPT ![month] = part_file[month]]
    /\ part_file' = [part_file EXCEPT ![month] = NoFile]
    /\ EndOfMonth("True")
    /\ UNCHANGED <<mode, reqVars, clockVars, cleanVars, peerVars, impVars>>

\* (mutant) not ok: return False and leave tmp_dest as it is
Failed_NoCleanup ==
    /\ fpc = "failed"
    /\ EndOfMonth("False")
    /\ UNCHANGED <<mode, reqVars, fsVars, clockVars, cleanVars, peerVars, impVars>>

\* not ok: unlink tmp_dest if it exists; return False
Failed ==
    /\ fpc = "failed"
    /\ part_file' = [part_file EXCEPT ![month] = NoFile]
    /\ EndOfMonth("False")
    /\ UNCHANGED <<mode, reqVars, dest_file, clockVars, cleanVars, peerVars, impVars>>

\* the process is interrupted (KeyboardInterrupt, kill): the files stay as
\* they are
Interrupt ==
    /\ fpc # "idle"
    /\ fpc' = "idle"
    /\ outcome' = "interrupted"
    /\ UNCHANGED <<mode, month, reqVars, accVars, fsVars, clockVars, cleanVars, peerVars, impVars>>

ImportParked ==
    /\ backend = "postgres"
    /\ num_rows = [f \in 1..NumFiles |-> MaxRows]
    /\ file_cols = [f \in 1..NumFiles |-> Columns2025]
    /\ StoreEmpty

InitFetch ==
    /\ ImportParked
    /\ year_is_current \in BOOLEAN
    /\ today_month \in 1..MaxTodayMonth
    /\ DownloaderIdle
    /\ CleanerIdle

NextFetch ==
    \/ \E m \in PeriodInputs : DownloadMonth(m)
    \/ DownloadAll \/ AllIter
    \/ \E s \in Statuses : HeadAnswer(s) \/ GetAnswer(s)
    \/ HeadError \/ GetError
    \/ StreamChunk \/ StreamBreak \/ WriteFail \/ StreamEnd
    \/ Publish \/ Failed \/ Interrupt

SpecFetch == InitFetch /\ [][NextFetch]_vars

\* A call of download_all_available that nothing stops from outside: the
\* process goes on to its next step, each request made comes back (with any
\* status, with an error or a timeout) and each body ends or breaks.
YearRunStep ==
    \/ AllIter
    \/ \E s \in Statuses : HeadAnswer(s) \/ GetAnswer(s)
    \/ HeadError \/ GetError
    \/ StreamChunk \/ StreamBreak \/ WriteFail \/ StreamEnd
    \/ Publish \/ Failed

NextYearRun == DownloadAll \/ YearRunStep

SpecYearRun == InitFetch /\ [][NextYearRun]_vars /\ WF_vars(YearRunStep)

-----------------------------------------------------------------------------
(***************************************************************************)
(* Two download_month calls at the same time, on the same DATA_DIR: the    *)
(* downloader above and a second process (peer), which is followed through *)
(* its operations on the directory only.  The peer finds its files in the  *)
(* directory by their names.                                               *)
(***************************************************************************)

\* (mutant) the month is left out of the name
FileName_NoMonth(y, m) == <<"yellow_tripdata_", y, ".parquet">>

\* get_file_path: f"yellow_tripdata_{self.YEAR}-{month:02d}.parquet", as the
\* pieces of the name (the month as its two decimal digits)
FileName(y, m) == <<"yellow_tripdata_", y, "-", m \div 10, m % 10, ".parquet">>

\* tmp_dest = dest.with_suffix(dest.suffix + ".part")
PartName(y, m) == FileName(y, m) \o <<".part">>

\* the place of the directory that the canonical name of month m designates
\* (dest_file and part_file list the directory by the month of the name)
Slot(m) == CHOOSE k \in Months : FileName(YEAR, k) = FileName(YEAR, m)
PartSlot(m) == CHOOSE k \in Months : PartName(YEAR, k) = PartName(YEAR, m)

mainVars == <<fpc, mode, month, reqVars, outcome, accVars>>

\* download_month(m) while the peer is not at work on month m
ParDownloadMonth(m) ==
    /\ peer.pc # "idle" => m # peer.month
    /\ DownloadMonth(m)

\* the peer calls download_month(k), k not the month the downloader is at
\* work on: dest.exists() returns True, else the transfer starts
PeerStart(k) ==
    /\ peer.pc = "idle"
    /\ Published(k)
    /\ fpc # "idle" => k # month
    /\ UNCHANGED twin
    /\ peer' = IF dest_file[Slot(k)].exists
                 THEN [pc |-> "idle", month |-> k, outcome |-> "True"]
                 ELSE [pc |-> "get", month |-> k, outcome |-> "none"]
    /\ UNCHANGED <<mainVars, fsVars, clockVars, cleanVars, impVars>>

\* the peer's GET answers: dest_tmp.unlink(missing_ok=True); open(dest_tmp, "wb")
PeerOpen ==
    /\ peer.pc = "get"
    /\ part_file' = [part_file EXCEPT ![PartSlot(peer.month)] = File(0)]
    /\ UNCHANGED twin
    /\ peer' = [peer EXCEPT !.pc = "stream"]
    /\ UNCHANGED <<mainVars, dest_file, clockVars, cleanVars, impVars>>

\* the peer's f.write(chunk)
PeerWrite ==
    /\ peer.pc = "stream"
    /\ part_file[PartSlot(peer.month)].size < BodyChunks
    /\ part_file' = [part_file EXCEPT ![PartSlot(peer.month)] = File(@.size + 1)]
    /\ UNCHANGED <<mainVars, peerVars, dest_file, clockVars, cleanVars, impVars>>

\* an attempt of the peer fails: the .part file is unlinked; it tries again
\* (again = TRUE) or download_month returns False
PeerError(again) ==
    /\ peer.pc \in {"get", "stream"}
    /\ part_file' = [part_file EXCEPT ![PartSlot(peer.month)] = NoFile]
    /\ UNCHANGED twin
    /\ peer' = IF again THEN [peer EXCEPT !.pc = "get"]
                 ELSE [peer EXCEPT !.pc = "idle", !.outcome = "False"]
    /\ UNCHANGED <<mainVars, dest_file, clockVars, cleanVars, impVars>>

\* the peer's body is whole: tmp_dest.replace(dest); return True
PeerPublish ==
    /\ peer.pc = "stream"
    /\ part_file[PartSlot(peer.month)].size = BodyChunks
    /\ dest_file' = [dest_file EXCEPT ![Slot(peer.month)] = part_file[PartSlot(peer.month)]]
    /\ part_file' = [part_file EXCEPT ![PartSlot(peer.month)] = NoFile]
    /\ UNCHANGED twin
    /\ peer' = [peer EXCEPT !.pc = "idle", !.outcome = "True"]
    /\ UNCHANGED <<mainVars, clockVars, cleanVars, impVars>>

InitParallelFetch ==
    /\ ImportParked
    /\ year_is_current = TRUE
    /\ today_month = FirstMonth
    /\ DownloaderIdle
    /\ CleanerIdle

NextParallelFetch ==
    \/ \E m \in PeriodInputs : ParDownloadMonth(m)
    \/ \E s \in Statuses : GetAnswer(s)
    \/ GetError
    \/ StreamChunk \/ StreamBreak \/ WriteFail \/ StreamEnd
    \/ Publish \/ Failed
    \/ \E k \in Months : PeerStart(k)
    \/ PeerOpen \/ PeerWrite \/ PeerPublish
    \/ \E again \in BOOLEAN : PeerError(again)

SpecParallelFetch == InitParallelFetch /\ [][NextParallelFetch]_vars

-----------------------------------------------------------------------------
(***************************************************************************)
(* Two download_month calls for the same month (FirstMonth) at the same    *)
(* time: they share the canonical path and the ".part" path.  A process    *)
(* writes through the file it opened, wherever that file is by now: still  *)
(* at the ".part" path, renamed to the canonical path, or unlinked.        *)
(***************************************************************************)

\* download_month: dest.exists() returns True, else the transfer starts
TwinStart(p) ==
    /\ twin[p].pc = "idle"
    /\ twin[p].outcome = "none"
    /\ twin' = [twin EXCEPT ![p] =
            IF dest_file[FirstMonth].exists THEN [@ EXCEPT !.outcome = "True"]
                                            ELSE [@ EXCEPT !.pc = "get"]]
    /\ UNCHANGED <<mainVars, peer, fsVars, clockVars, cleanVars, impVars>>

\* the GET answers: dest_tmp.unlink() if it exists (the file another process
\* has open there goes on, with no name); open(dest_tmp, "wb")
TwinOpen(p) ==
    /\ twin[p].pc = "get"
    /\ part_file' = [part_file EXCEPT ![FirstMonth] = File(0)]
    /\ twin' = [q \in Twins |->
            IF q = p THEN [twin[q] EXCEPT !.pc = "stream", !.written = 0, !.at = "part"]
            ELSE IF twin[q].at = "part" THEN [twin[q] EXCEPT !.at = "orphan"]
            ELSE twin[q]]
    /\ UNCHANGED <<mainVars, peer, dest_file, clockVars, cleanVars, impVars>>

\* f.write(chunk): the chunk goes to the file the process opened
TwinWrite(p) ==
    /\ twin[p].pc = "stream"
    /\ twin[p].written < BodyChunks
    /\ twin' = [twin EXCEPT ![p].written = @ + 1]
    /\ part_file' = IF twin[p].at = "part"
                       THEN [part_file EXCEPT ![FirstMonth] = File(@.size + 1)]
                       ELSE part_file
    /\ dest_file' = IF twin[p].at = "dest"
                       THEN [dest_file EXCEPT ![FirstMonth] = File(@.size + 1)]
                       ELSE dest_file
    /\ UNCHANGED <<mainVars, peer, clockVars, cleanVars, impVars>>

\* the body breaks: except RequestException unlinks dest_tmp if it exists
\* (whoever opened it); the process tries again or returns False
TwinBreak(p, again) ==
    /\ twin[p].pc = "stream"
    /\ twin[p].written < BodyChunks
    /\ part_file' = [part_file EXCEPT ![FirstMonth] = NoFile]
    /\ twin' = [q \in Twins |->
            LET t == IF twin[q].at = "part" THEN [twin[q] EXCEPT !.at = "orphan"]
                     ELSE twin[q]
            IN  IF q # p THEN t
                ELSE IF again THEN [t EXCEPT !.pc = "get"]
                ELSE [t EXCEPT !.pc = "idle", !.outcome = "False"]]
    /\ UNCHANGED <<mainVars, peer, dest_file, clockVars, cleanVars, impVars>>

\* the body is over: dest_tmp.stat() raises if the path is gone (return
\* False); st_size > 0 returns True and download_month renames what is at
\* dest_tmp to dest; an empty dest_tmp is unlinked and the GET sent again
TwinEnd(p) ==
    /\ twin[p].pc = "stream"
    /\ twin[p].written = BodyChunks
    /\ IF ~part_file[FirstMonth].exists
         THEN /\ twin' = [twin EXCEPT ![p].pc = "idle", ![p].outcome = "False"]
              /\ UNCHANGED fsVars
         ELSE IF NonEmpty(part_file[FirstMonth])
         THEN /\ dest_file' = [dest_file EXCEPT ![FirstMonth] = part_file[FirstMonth]]
              /\ part_file' = [part_file EXCEPT ![FirstMonth] = NoFile]
              /\ twin' = [q \in Twins |->
                    LET t == IF twin[q].at = "part" THEN [twin[q] EXCEPT !.at = "dest"]
                             ELSE IF twin[q].at = "dest" THEN [twin[q] EXCEPT !.at = "orphan"]
                             ELSE twin[q]
                    IN  IF q = p THEN [t EXCEPT !.pc = "idle", !.outcome = "True"] ELSE t]
         ELSE /\ part_file' = [part_file EXCEPT ![FirstMonth] = NoFile]
              /\ twin' = [q \in Twins |->
                    LET t == IF twin[q].at = "part" THEN [twin[q] EXCEPT !.at = "orphan"]
                             ELSE twin[q]
                    IN  IF q = p THEN [t EXCEPT !.pc = "get"] ELSE t]
              /\ UNCHANGED dest_file
    /\ UNCHANGED <<mainVars, peer, clockVars, cleanVars, impVars>>

NextSameFileFetch ==
    \E p \in Twins :
        \/ TwinStart(p) \/ TwinOpen(p) \/ TwinWrite(p) \/ TwinEnd(p)
        \/ \E again \in BOOLEAN : TwinBreak(p, again)

SpecSameFileFetch == InitParallelFetch /\ [][NextSameFileFetch]_vars

-----------------------------------------------------------------------------
(***************************************************************************)
(* stream_clean_to_mongodb.                                                *)
(***************************************************************************)

\* stream_clean_to_mongodb is called: the totals start at 0, the collection
\* is counted (current) and emptied if it holds a document -- the step
\* "empty" of calls -- and the source is the filtered SELECT
\* (CLEANER_SQL_PUSHDOWN) or the plain one.
StreamCleanStart(pushdown) ==
    /\ cleaner.pc # "loop"
    /\ totals' = NoTotals
    /\ collection' = IF Len(collection) > 0 THEN <<>> ELSE collection
    /\ cleaner' = [pc |-> "loop",
                   use_pushdown |-> pushdown,
                   current |-> Len(collection),
                   source_iter |-> IF pushdown THEN iter_data_from_postgres_clean(pg_rows)
                                   ELSE pg_rows,
                   calls |-> <<"empty">>]
    /\ UNCHANGED <<pg_rows, impVars>>
    /\ UNCHANGED <<fsVars, clockVars, mainVars, peer, twin>>

\* (mutant) the collection is emptied before the documents of each chunk go in
StreamCleanChunk_EmptyEachChunk ==
    /\ cleaner.pc = "loop"
    /\ cleaner.source_iter # <<>>
    /\ LET n == IF Len(cleaner.source_iter) < chunksize THEN Len(cleaner.source_iter)
                ELSE chunksize
           df == SubSeq(cleaner.source_iter, 1, n)
           cleaned == clean_data(df)
           after == insert_many(<<>>, cleaned, 0)
       IN  /\ collection' = after
           /\ totals' = [lignes_chargees |-> totals.lignes_chargees + Len(df),
                         lignes_conservees |-> totals.lignes_conservees + Len(cleaned),
                         documents_inserts |-> totals.documents_inserts + Len(after),
                         chunks |-> totals.chunks + 1]
           /\ cleaner' = [cleaner EXCEPT
                            !.source_iter = SubSeq(@, n + 1, Len(@)),
                            !.calls = @ \o [k \in 1..((Len(cleaned) + batch_size - 1) \div batch_size)
                                                |-> "insert_many"]]
    /\ UNCHANGED <<pg_rows, impVars>>
    /\ UNCHANGED <<fsVars, clockVars, mainVars, peer, twin>>

\* one turn of the loop over the chunks: the chunk is counted, cleaned, and
\* what is left of it inserted by batches
StreamCleanChunk ==
    /\ cleaner.pc = "loop"
    /\ cleaner.source_iter # <<>>
    /\ LET n == IF Len(cleaner.source_iter) < chunksize THEN Len(cleaner.source_iter)
                ELSE chunksize
           df == SubSeq(cleaner.source_iter, 1, n)
           cleaned == clean_data(df)
           after == insert_many(collection, cleaned, 0)
       IN  /\ collection' = after
           /\ totals' = [lignes_chargees |-> totals.lignes_chargees + Len(df),
                         lignes_conservees |-> totals.lignes_conservees + Len(cleaned),
                         documents_inserts |-> totals.documents_inserts
                                                + (Len(after) - Len(collection)),
                         chunks |-> totals.chunks + 1]
           /\ cleaner' = [cleaner EXCEPT
                            !.source_iter = SubSeq(@, n + 1, Len(@)),
                            !.calls = @ \o [k \in 1..((Len(cleaned) + batch_size - 1) \div batch_size)
                                                |-> "insert_many"]]
    /\ UNCHANGED <<pg_rows, impVars>>
    /\ UNCHANGED <<fsVars, clockVars, mainVars, peer, twin>>

\* the source has no chunk left: return totals
StreamCleanReturn ==
    /\ cleaner.pc = "loop"
    /\ cleaner.source_iter = <<>>
    /\ cleaner' = [cleaner EXCEPT !.pc = "done"]
    /\ UNCHANGED <<pg_rows, collection, totals, impVars>>
    /\ UNCHANGED <<fsVars, clockVars, mainVars, peer, twin>>

\* reading the next chunk or inserting raises: the exception leaves
\* stream_clean_to_mongodb, the collection stays as it is
StreamCleanRaise ==
    /\ cleaner.pc = "loop"
    /\ cleaner.source_iter # <<>>
    /\ cleaner' = [cleaner EXCEPT !.pc = "raised"]
    /\ UNCHANGED <<pg_rows, collection, totals, impVars>>
    /\ UNCHANGED <<fsVars, clockVars, mainVars, peer, twin>>

\* yellow_taxi_trips holds up to MaxSource rows, cleaned_trips is empty or
\* holds a document of an earlier run.
InitCleaner ==
    /\ ImportParked
    /\ year_is_current = FALSE
    /\ today_month = 1
    /\ DownloaderIdle
    /\ pg_rows \in {t \in UNION {[1..n -> 1..Len(TestRows)] : n \in 0..MaxSource} :
                        \A i, j \in 1..Len(t) : i < j => t[i] <= t[j]}
    /\ collection \in {<<>>, <<OldDoc>>}
    /\ cleaner = [pc |-> "idle", use_pushdown |-> TRUE, current |-> 0,
                  source_iter |-> <<>>, calls |-> <<>>]
    /\ totals = NoTotals

NextCleaner ==
    \/ \E pushdown \in BOOLEAN : StreamCleanStart(pushdown)
    \/ StreamCleanChunk
    \/ StreamCleanReturn
    \/ StreamCleanRaise

SpecCleaner == InitCleaner /\ [][NextCleaner]_vars

-----------------------------------------------------------------------------
(***************************************************************************)
(* The older NYCTaxiDataDownloader (src/src/data/download_data.py):        *)
(* download_month writes the body straight to the canonical path.          *)
(***************************************************************************)

\* download_month returns False (or True, or raises); unlink the file if the
\* except clause found it
LegacyReturn(ok, unlink) ==
    /\ outcome' = ok
    /\ fpc' = "idle"
    /\ dest_file' = IF unlink /\ month \in Months
                      THEN [dest_file EXCEPT ![month] = NoFile]
                      ELSE dest_file

\* download_month(m): no validation of m; file_exists(m) skips
LegacyDownloadMonth(m) ==
    /\ fpc = "idle"
    /\ mode' = "month"
    /\ month' = m
    /\ attempt' = 1 /\ status' = 0 /\ slept' = <<>> /\ heads' = 0 /\ gets' = 0
    /\ cause' = "none"
    /\ IF m \in Months /\ dest_file[m].exists
         THEN outcome' = "True" /\ fpc' = "idle"
         ELSE outcome' = "none" /\ fpc' = "l_get"
    /\ UNCHANGED <<accVars, fsVars, clockVars, cleanVars, peerVars, impVars>>

\* requests.get raises
LegacyGetError ==
    /\ fpc = "l_get"
    /\ Published(month)
    /\ gets' = gets + 1
    /\ status' = 0
    /\ LegacyReturn("False", TRUE)
    /\ UNCHANGED <<mode, month, attempt, slept, heads, cause, accVars, part_file, clockVars, cleanVars, peerVars,
                   impVars>>

\* requests.get answers s: raise_for_status, else open(file_path, "wb")
LegacyGetAnswer(s) ==
    /\ fpc = "l_get"
    /\ s \in AnswersOf(month)
    /\ gets' = gets + 1
    /\ status' = s
    /\ IF RaisesForStatus(s)
         THEN LegacyReturn("False", TRUE)
         ELSE /\ dest_file' = [dest_file EXCEPT ![month] = File(0)]
              /\ fpc' = "l_stream"
              /\ UNCHANGED outcome
    /\ UNCHANGED <<mode, month, attempt, slept, heads, cause, accVars, part_file, clockVars, cleanVars, peerVars,
                   impVars>>

\* f.write(chunk)
LegacyStreamChunk ==
    /\ fpc = "l_stream"
    /\ dest_file[month].size < BodyChunks
    /\ dest_file' = [dest_file EXCEPT ![month] = File(@.size + 1)]
    /\ UNCHANGED <<fpc, mode, month, reqVars, outcome, accVars, part_file, clockVars, cleanVars, peerVars,
                   impVars>>

\* iter_content raises RequestException: the partial file is unlinked
LegacyStreamBreak ==
    /\ fpc = "l_stream"
    /\ LegacyReturn("False", TRUE)
    /\ UNCHANGED <<mode, month, reqVars, accVars, part_file, clockVars, cleanVars, peerVars, impVars>>

\* f.write raises OSError: nothing catches it in download_month
LegacyWriteFail ==
    /\ fpc = "l_stream"
    /\ LegacyReturn("OSError", FALSE)
    /\ UNCHANGED <<mode, month, reqVars, accVars, part_file, clockVars, cleanVars, peerVars, impVars>>

\* the body ends (whole, or empty): return True
LegacyStreamEnd ==
    /\ fpc = "l_stream"
    /\ dest_file[month].size \in {0, BodyChunks}
    /\ LegacyReturn("True", FALSE)
    /\ UNCHANGED <<mode, month, reqVars, accVars, part_file, clockVars, cleanVars, peerVars, impVars>>

NextLegacyFetch ==
    \/ \E m \in PeriodInputs : LegacyDownloadMonth(m)
    \/ \E s \in Statuses : LegacyGetAnswer(s)
    \/ LegacyGetError
    \/ LegacyStreamChunk \/ LegacyStreamBreak \/ LegacyWriteFail \/ LegacyStreamEnd
    \/ Interrupt

SpecLegacyFetch == InitFetch /\ [][NextLegacyFetch]_vars

-----------------------------------------------------------------------------
(***************************************************************************)
(* Properties of the importers.                                            *)
(***************************************************************************)
Files == 1..NumFiles
NoRunActive == \A r \in Runs : ~Active(r)
SkipTags == {"SKIP", "skip"}
ErrorTags == {"ERREUR", "error"}

\* every row of file f is in the committed table at least once / exactly once
AllRowsPresent(f) == \A p \in 1..num_rows[f] : Copies(yellow_taxi_trips, f, p) >= 1
AllRowsOnce(f) == \A p \in 1..num_rows[f] : Copies(yellow_taxi_trips, f, p) = 1

\* C1: once a call of import_parquet for file f has completed with success,
\* every call for f that starts later (a call starts at the ledger gate)
\* returns "skipped" (0 on PostgreSQL, False on DuckDB, with the skip
\* message), leaves the destination row count unchanged and writes no
\* ledger entry.
C1_LoadIsIdempotent ==
    [][\A r \in Runs :
        (Gate(r) /\ CurFile(r) \in succeeded) =>
            /\ msg'[r] \in SkipTags
            /\ ret'[r] = (IF backend = "postgres" THEN 0 ELSE FALSE)
            /\ CountRows(yellow_taxi_trips') = CountRows(yellow_taxi_trips)
            /\ import_log' = import_log
            /\ tx_rows' = tx_rows /\ tx_log' = tx_log]_vars

\* C1 witness: a call has just been skipped for a file loaded by an earlier
\* run (the run at hand has loaded nothing itself).
C1_Witness ==
    \E r \in Runs : /\ msg[r] \in SkipTags
                     /\ total_rows[r] = 0
                     /\ succeeded # {}
                     /\ CountRows(yellow_taxi_trips) > 0

\* C2: when no run is going on, the destination table holds the rows of
\* every file in the ledger exactly once -- stated for the runs that all
\* returned (no process was killed), whatever load failed on a batch and
\* however often the import was launched again.
C2_ExactlyOncePerFile ==
    (NoRunActive /\ crashes = 0) =>
        \A f \in Files : IsFileImported(import_log, f) => AllRowsOnce(f)

\* C3: when the bulk insert of a batch fails (no other writer at work), the
\* load returns with the destination row count it found when it started,
\* reports an error and leaves no ledger entry for the file.
C3_FailedLoadRollsBack ==
    [][\A r \in Runs :
        (/\ api_ops = 0
         /\ \/ PgRaise(r) /\ pc[r] = "copy"
            \/ DuckRaise(r) /\ pc[r] = "insert") =>
            /\ CountRows(yellow_taxi_trips') = count_before[r]
            /\ msg'[r] \in ErrorTags
            /\ ~IsFileImported(import_log', CurFile(r))]_vars

\* C4: a load that reaches its ledger write has seen the destination count
\* grow by exactly the R rows of its file, and every ledger entry records
\* exactly R, whatever else writes to the table during the load.
C4_RowCountInvariant ==
    /\ \A r \in Runs : pc[r] \in {"log", "commit"} =>
            rows_imported[r] = num_rows[CurFile(r)]
    /\ \A k \in 1..Len(import_log) :
            import_log[k].rows_imported = num_rows[import_log[k].file_name]

\* C5: in every reachable state (after kills and failed batches too), a
\* file that has a committed ledger entry has all its rows committed in
\* the destination table.
C5_LedgerImpliesData ==
    \A k \in 1..Len(import_log) : AllRowsPresent(import_log[k].file_name)

\* C5 witness: the ledger has an entry after a run was killed and after a
\* store operation failed.
C5_Witness ==
    /\ Len(import_log) > 0
    /\ crashes > 0
    /\ faults > 0

\* C6: the ledger holds at most one entry per file name, also when two runs
\* overlap in time.
C6_LedgerUnique ==
    \A j, k \in 1..Len(import_log) :
        import_log[j].file_name = import_log[k].file_name => j = k

-----------------------------------------------------------------------------
(***************************************************************************)
(* Properties of the downloaders.                                          *)
(***************************************************************************)
Complete(file) == file.exists /\ file.size = BodyChunks

\* backoff_base to the power n, as a fraction
BaseToThe(n) == <<Pow(BackoffNum, n), Pow(BackoffDen, n)>>

\* a transfer error that is a RequestException: no answer, a bad status
\* other than 404, a body that breaks off, an empty body
TransferFails ==
    \/ GetError
    \/ \E s \in Statuses \ {404} : RaisesForStatus(s) /\ GetAnswer(s)
    \/ StreamBreak
    \/ StreamEnd /\ part_file[month].size = 0

\* C7: in every state during or after a fetch, failed or interrupted ones
\* included, the canonical path of a month is absent or holds the complete
\* file.
C7_AtomicPublication ==
    \A m \in Months : dest_file[m].exists => Complete(dest_file[m])

\* C7, second half: the canonical path changes only by the rename of a
\* complete temporary file.
C7_RenameIsOnlyPublication ==
    [][\A m \in Months :
        dest_file'[m] # dest_file[m] =>
            /\ fpc = "publish"
            /\ m = month
            /\ Complete(part_file[m])
            /\ dest_file'[m] = part_file[m]]_vars

\* C8: download_month for a month outside 1..12 ends with ValueError, and
\* no GET or HEAD request is made for it.
C8_PeriodValidation ==
    (mode = "month" /\ ~ValidMonth(month)) =>
        /\ outcome \in {"ValueError"}
        /\ fpc = "idle"
        /\ gets = 0
        /\ heads = 0

\* C9: when HEAD answers 404 for a month, download_all_available files the
\* month as missing and goes on to the next month: no GET is made for it,
\* nothing is slept or tried again after the answer, and neither the
\* temporary nor the canonical file of any month changes.  (HEAD attempts
\* that got no answer at all before the 404 are tried again; the claim is
\* about what follows the 404.)
C9_NotPublishedNoTransfer ==
    [][(fpc = "head" /\ HeadAnswer(404)) =>
            /\ missing' = Append(missing, month)
            /\ month' = month + 1
            /\ fpc' = "iter"
            /\ gets' = 0
            /\ slept' = slept /\ attempt' = attempt
            /\ results' = results /\ failures' = failures
            /\ UNCHANGED fsVars]_vars

\* C9 witness: HEAD has just answered 404 and the month is filed as missing
\* with no GET made.
C9_Witness ==
    /\ mode = "all"
    /\ fpc = "iter"
    /\ status = 404
    /\ Len(missing) > 0
    /\ gets = 0

\* C10 as stated: every transfer error, a failure to write the temporary
\* file included, deletes the temporary file and, while attempts are left,
\* is followed by a wait of backoff_base^(attempt-1) and another attempt.
C10_AnyErrorRetried ==
    [][(attempt < MAX_RETRIES /\ (TransferFails \/ WriteFail)) =>
            /\ ~part_file'[month].exists
            /\ fpc' = "get"
            /\ attempt' = attempt + 1
            /\ slept' = Append(slept, BaseToThe(attempt - 1))]_vars

\* C10 amended: a transfer error that is a RequestException deletes the
\* temporary file, and is followed by a wait of backoff_base^(attempt-1)
\* and another attempt while attempt < MAX_RETRIES, by failure with no wait
\* after the last attempt; a failure to write the temporary file deletes
\* it and ends the transfer at once, with no wait and no other attempt.
\* At most MAX_RETRIES requests are made, and the k-th wait is
\* backoff_base^(k-1), k in 1..MAX_RETRIES-1.
C10_RetryPolicy ==
    [][/\ TransferFails =>
            /\ ~part_file'[month].exists
            /\ IF attempt < MAX_RETRIES
                 THEN /\ fpc' = "get"
                      /\ attempt' = attempt + 1
                      /\ slept' = Append(slept, BaseToThe(attempt - 1))
                 ELSE /\ fpc' = "failed"
                      /\ slept' = slept
       /\ WriteFail =>
            /\ ~part_file'[month].exists
            /\ fpc' = "failed"
            /\ slept' = slept /\ attempt' = attempt /\ gets' = gets
       /\ gets' <= MAX_RETRIES /\ heads' <= MAX_RETRIES
       /\ attempt' <= MAX_RETRIES
       /\ Len(slept') <= MAX_RETRIES - 1
       /\ \A k \in 1..Len(slept') : slept'[k] = BaseToThe(k - 1)]_vars

\* C10 witness: the last attempt has failed after MAX_RETRIES requests and
\* MAX_RETRIES - 1 waits of 1 s, 3/2 s.
C10_Witness ==
    /\ fpc = "failed"
    /\ gets = MAX_RETRIES
    /\ attempt = MAX_RETRIES
    /\ slept = <<BaseToThe(0), BaseToThe(1)>>
    /\ ~part_file[month].exists

\* C11: when the canonical file of a month is already there, download_month
\* returns True at once, and the loop of download_all_available files the
\* month under results and goes on: no HEAD and no GET is made, and no
\* file is created, changed or deleted.
C11_LocalShortCircuit ==
    [][/\ \A m \in Months :
            (DownloadMonth(m) /\ dest_file[m].exists) =>
                /\ outcome' = "True"
                /\ fpc' = "idle"
                /\ heads' = 0 /\ gets' = 0
                /\ UNCHANGED fsVars
       /\ (AllIter /\ month <= EndMonth /\ dest_file[month].exists) =>
                /\ results' = Append(results, month)
                /\ skips' = skips + 1
                /\ month' = month + 1
                /\ fpc' = "iter"
                /\ heads' = heads /\ gets' = gets
                /\ UNCHANGED fsVars]_vars

\* C11 witness: download_month has returned True for a month whose file
\* was there, with no request made.
C11_Witness ==
    /\ mode = "month"
    /\ fpc = "idle"
    /\ outcome = "True"
    /\ heads = 0 /\ gets = 0
    /\ Complete(dest_file[month])

\* C12: a transfer that ends with a success status and zero bytes written
\* is a transfer error under the retry policy -- the temporary file is
\* deleted, another attempt follows a wait while attempt < MAX_RETRIES,
\* failure follows the last attempt -- and no zero-byte file is ever at the
\* canonical path.
C12_EmptyResponseRejected ==
    [][/\ (StreamEnd /\ part_file[month].size = 0) =>
            /\ ~part_file'[month].exists
            /\ dest_file' = dest_file
            /\ IF attempt < MAX_RETRIES
                 THEN /\ fpc' = "get"
                      /\ attempt' = attempt + 1
                      /\ slept' = Append(slept, BaseToThe(attempt - 1))
                 ELSE /\ fpc' = "failed"
                      /\ slept' = slept
       /\ \A m \in Months : dest_file'[m].exists => dest_file'[m].size > 0]_vars

\* C12 witness: the last attempt has ended with an empty body after the
\* earlier attempts were tried again; nothing is published.
C12_Witness ==
    /\ fpc = "failed"
    /\ cause = "Reponse vide"
    /\ ~RaisesForStatus(status)
    /\ attempt = MAX_RETRIES
    /\ ~part_file[month].exists
    /\ ~dest_file[month].exists

\* C13: when the transfer of a month has failed (all MAX_RETRIES attempts,
\* or an earlier give-up), download_month returns False with neither the
\* canonical nor the temporary file of the month there; in
\* download_all_available the month is filed under failures and the loop
\* goes on with the next month, so that a call that returns has gone
\* through every month 1..end_month.
C13_FetchFailureIsPerFileSkip ==
    [][/\ Failed =>
            /\ outcome' = "False"
            /\ ~dest_file'[month].exists
            /\ ~part_file'[month].exists
            /\ mode = "all" =>
                    /\ fpc' = "iter"
                    /\ month' = month + 1
                    /\ failures' = Append(failures, month)
                    /\ results' = results /\ missing' = missing
       /\ (fpc' = "idle" /\ mode' = "all" /\ outcome' # "interrupted") =>
            /\ month' = EndMonth + 1
            /\ Len(results') + Len(missing') + Len(failures') = EndMonth]_vars

\* C13 witness: in download_all_available, all MAX_RETRIES attempts for a
\* month have failed, the month is filed under failures and the loop is at
\* the next month, with months left to go.
C13_Witness ==
    /\ mode = "all"
    /\ fpc = "iter"
    /\ outcome = "False"
    /\ gets = MAX_RETRIES /\ attempt = MAX_RETRIES
    /\ Len(slept) = MAX_RETRIES - 1
    /\ cause \in {"ConnectionError", "HTTPError", "ChunkedEncodingError", "Reponse vide"}
    /\ status # 404
    /\ failures # <<>> /\ failures[Len(failures)] = month - 1
    /\ month <= EndMonth

\* C14: whenever download_month returns, it returns True if and only if the
\* canonical file of the month is there, and the '.part' file of the month
\* is not there.  (The returns: the local file was found, the rename was
\* done, the transfer failed.)
C14_ResultMatchesFileSystem ==
    [][/\ \A m \in Months :
            (DownloadMonth(m) /\ outcome' \in {"True", "False"}) =>
                /\ (outcome' = "True") <=> dest_file'[m].exists
                /\ ~part_file'[m].exists
       /\ (Publish \/ Failed) =>
                /\ outcome' \in {"True", "False"}
                /\ (outcome' = "True") <=> dest_file'[month].exists
                /\ ~part_file'[month].exists]_vars

\* C14 witness: download_month has returned False after a transfer that a
\* '.part' file was written for.
C14_Witness ==
    /\ mode = "month"
    /\ fpc = "idle"
    /\ outcome = "False"
    /\ cause \in {"ChunkedEncodingError", "OSError"}
    /\ ~dest_file[month].exists
    /\ ~part_file[month].exists

-----------------------------------------------------------------------------
(***************************************************************************)
(* Properties of the runs of the importers.                                *)
(***************************************************************************)

\* C15: the figure a run reports is made of the files it newly loaded: on
\* PostgreSQL (rows loaded) every file newly loaded adds its row count, on
\* DuckDB (files processed) it adds one; a file skipped or failed adds
\* nothing.
C15_RunSummary ==
    [][\A r \in Runs :
        /\ PgLog(r) => total_rows'[r] = total_rows[r] + num_rows[CurFile(r)]
        /\ DuckCommit(r) => total_rows'[r] = total_rows[r] + 1
        /\ (Gate(r) /\ IsFileImported(import_log, CurFile(r))) =>
                total_rows'[r] = total_rows[r]
        /\ (PgRaise(r) \/ DuckRaise(r)) => total_rows'[r] = total_rows[r]]_vars

HasEntry(log, f) == \E k \in 1..Len(log) : log[k].file_name = f

C18_CancellationLeavesNothing ==
    /\ outcome = "interrupted" =>
            \A m \in Months :
                /\ dest_file[m].exists => Complete(dest_file[m])
                /\ ~part_file[m].exists
    /\ \A k \in 1..Len(import_log) : AllRowsPresent(import_log[k].file_name)

\* a step takes run r through the schema resolver while the table is there
\* with other columns than the first file's
ResolverOnMismatch(r) ==
    /\ pc[r] \in {"check_table", "init_db"}
    /\ pc'[r] \notin {pc[r], "idle"}
    /\ table_exists
    /\ table_cols # InferredSchema

ResolverPcs == {"check_table", "create_table"}
LoadPcs == {"gate", "count_before", "copy", "count_after", "log"}

\* C20: a PostgreSQL run over a non-empty file list goes through the schema
\* resolver exactly once, first thing, before any load: a run starts in the
\* resolver, with the loop at the first file and nothing loaded by the run,
\* and never comes back to it from a load; a table the resolver creates has
\* the columns of the first file of the sorted list; and when the table
\* exists the resolver leaves it, its rows and the ledger as they are.
C20_SchemaResolutionOrder ==
    [][backend = "postgres" => \A r \in Runs :
        /\ (pc[r] = "idle" /\ pc'[r] # "idle") => pc'[r] = "check_table"
        /\ pc'[r] \in ResolverPcs =>
                /\ pc[r] \in {"idle"} \cup ResolverPcs
                /\ idx'[r] = 1
                /\ total_rows'[r] = 0
        /\ (pc'[r] \in LoadPcs /\ pc[r] \notin LoadPcs) =>
                /\ pc[r] \in ResolverPcs
                /\ table_exists'
        /\ (pc[r] \in ResolverPcs /\ ~table_exists /\ table_exists') =>
                table_cols' = file_cols[parquet_files[1]]
        /\ (pc[r] \in ResolverPcs /\ pc'[r] # pc[r] /\ table_exists) =>
                UNCHANGED <<table_exists, table_cols, yellow_taxi_trips, import_log>>]_vars

\* a later PostgreSQL run is past the resolver, at its first file, over a
\* table that an earlier run made from the first file (of another layout than
\* the second file) and loaded
C20_Witness ==
    \E r \in Runs :
        /\ backend = "postgres"
        /\ pc[r] = "gate"
        /\ idx[r] = 1
        /\ file_cols[parquet_files[1]] # file_cols[parquet_files[2]]
        /\ table_cols = file_cols[parquet_files[1]]
        /\ yellow_taxi_trips # EmptyBag
        /\ HasEntry(import_log, parquet_files[1])

\* where a DuckDB run is while in import_parquet, after the ledger lookup
DuckLoadPcs == {"begin", "insert", "count_after", "log", "commit"}

\* C21: a run hands the files to import_parquet in ascending order, each
\* once, one call over before the next begins: the loop leaves the resolver
\* at the first file; it comes to a file's ledger lookup from a call only by
\* moving one place up the sorted list, to a file of greater name, with the
\* call's locals reset and no transaction left open; the position changes in
\* no other way while the run goes on; and the run finishes from the last file.
C21_DeterministicOrder ==
    [][\A r \in Runs :
        /\ (pc'[r] = "gate" /\ pc[r] \in ResolverPcs \cup {"init_db"}) => idx'[r] = 1
        /\ (pc'[r] = "gate" /\ pc[r] \in LoadPcs \cup DuckLoadPcs /\ <<pc[r], idx[r]>> # <<pc'[r], idx'[r]>>) =>
                /\ idx'[r] = idx[r] + 1
                /\ CurFile(r)' > CurFile(r)
                /\ chunk'[r] = 1 /\ rows_imported'[r] = 0 /\ count_before'[r] = 0
                /\ backend = "duckdb" => tx_rows' = EmptyBag /\ tx_log' = <<>>
        /\ idx'[r] # idx[r] =>
                \/ pc'[r] = "idle" /\ idx'[r] = 1
                \/ pc'[r] = "gate" /\ pc[r] \in LoadPcs \cup DuckLoadPcs
        /\ (pc'[r] = "finished" /\ pc[r] # "finished") =>
                /\ idx[r] = NumFiles
                /\ pc[r] \in LoadPcs \cup DuckLoadPcs]_vars

\* a run is at the ledger lookup of the last file after it loaded the ones
\* before
C21_Witness ==
    \E r \in Runs :
        /\ pc[r] = "gate"
        /\ idx[r] = NumFiles
        /\ \A i \in 1..(NumFiles - 1) :
                /\ HasEntry(import_log, parquet_files[i])
                /\ AllRowsPresent(parquet_files[i])
        /\ ~HasEntry(import_log, parquet_files[NumFiles])

-----------------------------------------------------------------------------
(***************************************************************************)
(* Properties of two downloads at the same time.                           *)
(***************************************************************************)
Years == {YEAR - 1, YEAR}
Identities == Years \X Months

\* the paths a fetch of identity i works on
PathsOf(i) == {FileName(i[1], i[2]), PartName(i[1], i[2])}

\* C22: the canonical and temporary paths of two distinct (year, month) are
\* four distinct paths; while the downloader and the peer fetch distinct
\* months, a step changes no file but those of the month of a fetch at work,
\* and each download_month returns True exactly when its canonical file is
\* there, whole, with no temporary file of its own left, as it does alone.
C22_ParallelFetchSafe ==
    [][/\ \A i, j \in Identities :
            /\ Cardinality(PathsOf(i)) = 2
            /\ i # j => PathsOf(i) \cap PathsOf(j) = {}
       /\ \A k \in Months :
            (dest_file'[k] # dest_file[k] \/ part_file'[k] # part_file[k]) =>
                \/ fpc # "idle" /\ k = month
                \/ peer.pc # "idle" /\ k = peer.month
       /\ (fpc # "idle" /\ fpc' = "idle") =>
            /\ outcome' \in {"True", "False"}
            /\ (outcome' = "True") <=> dest_file'[month].exists
            /\ dest_file'[month].exists => Complete(dest_file'[month])
            /\ ~part_file'[month].exists
       /\ (peer.pc # "idle" /\ peer'.pc = "idle") =>
            /\ peer'.outcome \in {"True", "False"}
            /\ (peer'.outcome = "True") <=> dest_file'[peer.month].exists
            /\ dest_file'[peer.month].exists => Complete(dest_file'[peer.month])
            /\ ~part_file'[peer.month].exists]_vars

\* both processes are in the middle of a body, each with its own temporary
\* file, for two distinct months
C22_Witness ==
    /\ fpc = "stream"
    /\ peer.pc = "stream"
    /\ month # peer.month
    /\ part_file[month].exists /\ part_file[month].size > 0
    /\ part_file[peer.month].exists /\ part_file[peer.month].size > 0

-----------------------------------------------------------------------------
(***************************************************************************)
(* The two importers side by side.                                         *)
(***************************************************************************)
RECURSIVE RowsOfFiles(_)
\* number of rows of the first n files of the list
RowsOfFiles(n) == IF n = 0 THEN 0 ELSE num_rows[parquet_files[n]] + RowsOfFiles(n - 1)

\* no store error, no kill, no row from the API so far
NoFailureInjected == faults = 0 /\ crashes = 0 /\ api_ops = 0

\* C23: with no failure injected, a run that has finished leaves the same
\* ledger and the same row count whichever importer made it, namely what the
\* DuckDB importer leaves: every file of the directory in the ledger, once,
\* with its own number of rows, and as many rows in the table as the files
\* have (so that a rerun skips every file on both).
C23_BackendEquivalence ==
    (NoFailureInjected /\ \E r \in Runs : pc[r] = "finished") =>
        /\ \A f \in Files : \E k \in 1..Len(import_log) :
                /\ import_log[k] = LogEntry(f, num_rows[f])
                /\ \A j \in 1..Len(import_log) : import_log[j].file_name = f => j = k
        /\ CountRows(yellow_taxi_trips) = RowsOfFiles(NumFiles)

\* C24: once the table exists, every step of either importer (initialisation,
\* load, failed load, kill) and of the API leaves it in existence with every
\* column it had.
C24_AdditiveSchema ==
    [][table_exists => (table_exists' /\ table_cols \subseteq table_cols')]_vars

\* a DuckDB run has gone through _initialize_database again, over a table of
\* the 2025 layout that files were loaded into by an earlier run
C24_Witness ==
    \E r \in Runs :
        /\ backend = "duckdb"
        /\ pc[r] = "gate"
        /\ idx[r] = 1
        /\ table_exists
        /\ "cbd_congestion_fee" \in table_cols
        /\ import_log # <<>>

\* C25: every step (load, failed load and its rollback, kill, rerun,
\* initialisation, API) leaves every committed ledger entry in place and
\* unchanged: the ledger after the step starts with the ledger before it.
C25_AppendOnlyLedger ==
    [][/\ Len(import_log') >= Len(import_log)
       /\ \A k \in 1..Len(import_log) : import_log'[k] = import_log[k]]_vars

\* a load has failed in a run, after the ledger got an entry
C25_Witness ==
    \E r \in Runs :
        /\ msg[r] \in ErrorTags
        /\ faults > 0
        /\ import_log # <<>>

\* C26: on PostgreSQL no two rows of the table carry the same value in the
\* column 'index' (rows with no value there, made by the API, set aside).
C26_RowIdentity ==
    backend = "postgres" =>
        \A x, y \in BagToSet(yellow_taxi_trips) :
            (x.index # NoIndex /\ x.index = y.index) =>
                (x = y /\ yellow_taxi_trips[x] = 1)

-----------------------------------------------------------------------------
(***************************************************************************)
(* Batches of a load.                                                      *)
(***************************************************************************)

\* run r makes a bulk insert in this step
InsertStep(r) ==
    \/ pc[r] = "copy" /\ pc'[r] \in {"copy", "count_after"} /\ chunk'[r] # chunk[r]
    \/ pc[r] = "insert" /\ pc'[r] = "count_after"

\* what the connection of the importer sees of the table
TableView == IF backend = "postgres" THEN yellow_taxi_trips ELSE DuckView

\* the positions in the file of the rows of batch k, for batches of c rows
BatchPositions(f, c, k) == {p \in 1..num_rows[f] : (k - 1) * c < p /\ p <= k * c}

\* C27 (as stated): every bulk insert of a load, on either importer, inserts
\* at most chunk_size rows.
C27_EveryInsertIsABatch ==
    [][\A r \in Runs : InsertStep(r) =>
            CountRows(TableView') - CountRows(TableView) <= ChunkSize]_vars

\* C27 (amended): on PostgreSQL the k-th bulk insert of a load inserts, once
\* each, the rows of the file at positions (k-1)c+1 .. min(kc, R) and no
\* other row, k = 1, 2, ... with no batch empty and the last one ending at
\* row R; on DuckDB the one bulk insert of a load inserts every row of the
\* file once, whatever their number.
C27_Batching ==
    [][\A r \in Runs : InsertStep(r) =>
        LET f == CurFile(r)
            c == ChunkSize
            k == chunk[r]
            inserted == IF backend = "postgres" THEN BatchPositions(f, c, k)
                                                 ELSE 1..num_rows[f]
        IN  /\ \A p \in 1..num_rows[f] :
                    Copies(TableView', f, p) - Copies(TableView, f, p) =
                        IF p \in inserted THEN 1 ELSE 0
            /\ CountRows(TableView') - CountRows(TableView) = Cardinality(inserted)
            /\ inserted # {}
            /\ backend = "postgres" =>
                    /\ Cardinality(inserted) <= c
                    /\ chunk'[r] = k + 1
                    /\ (pc'[r] = "count_after") <=> (k * c >= num_rows[f])
            /\ backend = "duckdb" => pc'[r] = "count_after"]_vars

\* a PostgreSQL load has copied the whole of a file in more than one batch,
\* the last one shorter than the chunk size
C27_Witness ==
    \E r \in Runs :
        /\ backend = "postgres"
        /\ pc[r] = "count_after"
        /\ chunk[r] > 2
        /\ num_rows[CurFile(r)] % ChunkSize # 0
        /\ AllRowsOnce(CurFile(r))

\* C28: when the schema resolver of a PostgreSQL run raises, the run ends on
\* that error: the exception leaves the resolver for the caller, with the
\* loop not started and nothing loaded by the run, the step changes neither
\* the table nor its rows nor the ledger, and all the run does afterwards is
\* end, again with the store left as it is.
C28_SchemaFailureIsFatal ==
    [][\A r \in Runs :
        /\ (pc[r] \in ResolverPcs /\ faults' # faults) => pc'[r] = "raised"
        /\ (pc'[r] = "raised" /\ pc[r] # "raised") =>
                /\ pc[r] \in ResolverPcs
                /\ idx[r] = 1 /\ total_rows[r] = 0
                /\ msg[r] = "none"
                /\ UNCHANGED <<table_exists, table_cols, yellow_taxi_trips, import_log>>
        /\ (pc[r] = "raised" /\ pc'[r] # "raised") =>
                /\ pc'[r] = "idle"
                /\ UNCHANGED <<table_exists, table_cols, yellow_taxi_trips, import_log>>]_vars

\* a run has ended on the exception of the resolver: no table, no row, no
\* ledger entry
C28_Witness ==
    \E r \in Runs :
        /\ pc[r] = "raised"
        /\ faults > 0
        /\ ~table_exists
        /\ yellow_taxi_trips = EmptyBag
        /\ import_log = <<>>

-----------------------------------------------------------------------------
(***************************************************************************)
(* The existence probe and the GET that follows.                           *)
(***************************************************************************)

\* the probe of the month at hand gives its answer in this step
ProbeAnswers == fpc = "head" /\ fpc' \notin {"head", "idle"}

\* C29: the probe files the month under `missing` (absent), with no GET
\* sent, exactly when the last HEAD obtained status 404; after any other
\* status, and after MAX_RETRIES HEAD requests that all raised, it answers
\* "present": download_month is called (and goes to the GET unless the local
\* file is there).
C29_RemoteExistenceMapping ==
    [][ProbeAnswers =>
        /\ heads' = heads + 1
        /\ (missing' = Append(missing, month)) <=> (status' = 404)
        /\ status' = 404 => (fpc' = "iter" /\ month' = month + 1 /\ gets' = 0)
        /\ status' # 404 =>
                /\ missing' = missing
                /\ status' = 0 => heads' = MAX_RETRIES
                /\ IF dest_file[month].exists
                     THEN fpc' = "iter" /\ results' = Append(results, month)
                     ELSE fpc' = "get" /\ month' = month /\ gets' = 0]_vars

\* every HEAD of the month raised, and the GET is about to be sent
C29_Witness ==
    /\ mode = "all"
    /\ fpc = "get"
    /\ status = 0
    /\ heads = MAX_RETRIES
    /\ gets = 0
    /\ month \notin {missing[k] : k \in 1..Len(missing)}

\* C30: a GET that answers 404, at whatever attempt, ends the transfer as
\* failed in that very step, with no wait and no further attempt counted;
\* download_month then returns False, having sent no other request, with
\* neither the temporary nor the canonical file of the month in place.
C30_NotFoundOnGetIsTerminal ==
    [][/\ (fpc = "get" /\ gets' # gets /\ status' = 404) =>
            /\ fpc' = "failed"
            /\ UNCHANGED <<slept, attempt, dest_file>>
       /\ (fpc = "failed" /\ status = 404 /\ fpc' # "failed" /\ outcome' # "interrupted") =>
            /\ outcome' = "False"
            /\ UNCHANGED <<gets, heads, slept, attempt>>
            /\ ~part_file'[month].exists
            /\ ~dest_file'[month].exists]_vars

\* download_month has returned False after a second GET that answered 404
\* (the first attempt failed and was waited for once)
C30_Witness ==
    /\ mode = "month"
    /\ fpc = "idle"
    /\ outcome = "False"
    /\ status = 404
    /\ attempt = 2
    /\ gets = 2
    /\ Len(slept) = 1
    /\ ~part_file[month].exists
    /\ ~dest_file[month].exists

-----------------------------------------------------------------------------
(***************************************************************************)
(* The ledger against the table.                                           *)
(***************************************************************************)
RECURSIVE LedgerRows(_)
\* SUM(rows_imported) over the entries of a ledger
LedgerRows(log) ==
    IF log = <<>> THEN 0 ELSE Head(log).rows_imported + LedgerRows(Tail(log))

\* C31: with no run going on, no run killed and no row made by the API, the
\* table has as many rows as the ledger entries add up to.
C31_LedgerAccountsForTable ==
    (NoRunActive /\ crashes = 0 /\ api_ops = 0) =>
        CountRows(yellow_taxi_trips) = LedgerRows(import_log)

\* C32: whatever two download_month calls for the same month do, the file at
\* the canonical path is whole whenever it exists, and it is there, whole,
\* once a call has returned True.
C32_SameFileFetchSafe ==
    /\ dest_file[FirstMonth].exists => Complete(dest_file[FirstMonth])
    /\ \A p \in Twins : twin[p].outcome = "True" => Complete(dest_file[FirstMonth])

\* C33: a canonical file that exists is left as it is by every step of
\* download_month and download_all_available, whatever the month they work
\* on, and no rename is ever made onto it.
C33_PublishedFilesAreStable ==
    [][\A m \in Months :
            dest_file[m].exists =>
                /\ dest_file'[m] = dest_file[m]
                /\ ~(Publish /\ month = m)]_vars

\* C33 witness: download_all_available found the file of one month in
\* place, then downloaded and published another month; both are complete.
C33_Witness ==
    /\ mode = "all"
    /\ fpc = "idle"
    /\ skips >= 1 /\ successes >= 1
    /\ Len(results) >= 2
    /\ \A i \in 1..Len(results) : Complete(dest_file[results[i]])

\* C34: in download_all_available the months gone through so far are
\* FirstMonth..month-1, each filed once, in ascending order, under results
\* (found in place or downloaded: skips + successes of them), missing or
\* failures; when the call returns, all the months up to EndMonth have been
\* gone through and the file of every month of results is there.
C34_YearRunClassification ==
    (mode = "all" /\ outcome # "interrupted") =>
        LET R == {results[i] : i \in 1..Len(results)}
            M == {missing[i] : i \in 1..Len(missing)}
            F == {failures[i] : i \in 1..Len(failures)}
            Ascending(q) == \A i, j \in 1..Len(q) : i < j => q[i] < q[j]
        IN  /\ Ascending(results) /\ Ascending(missing) /\ Ascending(failures)
            /\ R \cap M = {} /\ R \cap F = {} /\ M \cap F = {}
            /\ R \cup M \cup F = FirstMonth..(month - 1)
            /\ Len(results) = skips + successes
            /\ month <= EndMonth + 1
            /\ fpc = "idle" =>
                    /\ month = EndMonth + 1
                    /\ \A m \in R : dest_file[m].exists

\* C34 witness: a year run has returned with a month downloaded, a month
\* failed and a month missing.
C34_Witness ==
    /\ mode = "all"
    /\ fpc = "idle"
    /\ outcome # "interrupted"
    /\ month = EndMonth + 1
    /\ successes >= 1
    /\ Len(failures) >= 1
    /\ Len(missing) >= 1

\* C35: for each month download_all_available makes at most MAX_RETRIES
\* HEAD requests, then at most MAX_RETRIES GET requests (the counts of a
\* month are not reset while the month is worked on, and no HEAD comes
\* after a GET), and the call, once made, returns.
C35_BoundedFetch ==
    /\ [](heads <= MAX_RETRIES /\ gets <= MAX_RETRIES)
    /\ [][/\ fpc \notin {"idle", "iter"} => (heads' >= heads /\ gets' >= gets)
          /\ heads' > heads => (gets = 0 /\ gets' = 0)]_vars
    /\ (mode = "all" /\ fpc # "idle") ~> (fpc = "idle")

\* C35 witness: the call has returned after a last month for which every
\* HEAD failed and then every GET failed.
C35_Witness ==
    /\ mode = "all"
    /\ fpc = "idle"
    /\ month = EndMonth + 1
    /\ heads = MAX_RETRIES
    /\ gets = MAX_RETRIES
    /\ Len(failures) >= 1

\* run_pipeline: the value import_all_parquet_files returned goes into
\* PipelineResponse(success=True, "+count lignes"); an exception that
\* leaves the call becomes HTTP 500
PipelineResponse(r) ==
    IF pc[r] = "finished"
      THEN [success |-> TRUE, count |-> total_rows[r]]
      ELSE [success |-> FALSE, count |-> 0]

\* C36: when /pipeline/run is about to report success, no load of a file
\* has failed in the run: every file went through the ledger gate or was
\* loaded and logged, so every file has its ledger entry.
C36_TriggerReport ==
    \A r \in Runs :
        (backend = "postgres" /\ pc[r] \in {"finished", "raised"}
            /\ PipelineResponse(r).success) =>
                \A f \in 1..NumFiles : HasEntry(import_log, f)

C38_StreamingTotals ==
    /\ cleaner.pc # "idle" =>
            /\ Head(cleaner.calls) = "empty"
            /\ \A k \in 2..Len(cleaner.calls) : cleaner.calls[k] = "insert_many"
    /\ cleaner.pc = "done" =>
            LET source == IF cleaner.use_pushdown
                            THEN iter_data_from_postgres_clean(pg_rows)
                            ELSE pg_rows
            IN  /\ totals.documents_inserts = totals.lignes_conservees
                /\ totals.lignes_conservees <= totals.lignes_chargees
                /\ totals.lignes_chargees = Len(source)
                /\ Len(collection) = totals.documents_inserts
                /\ collection = clean_data(source)
                /\ \A i \in 1..Len(collection) : collection[i] # OldDoc

\* C38 witness: a run over a collection that held a document has returned
\* after two chunks, with rows removed and two rows or more inserted.
C38_Witness ==
    /\ cleaner.pc = "done"
    /\ cleaner.current > 0
    /\ totals.chunks >= 2
    /\ totals.lignes_conservees < totals.lignes_chargees
    /\ totals.documents_inserts >= 2

====
